---- MODULE Spec2Model ----
(***************************************************************************)
(* A model of the retrieval core of ATS-Resume-Optimizer:                  *)
(*   - EmbeddingStore  (src/embedding_store.py): a FAISS inner-product     *)
(*     index over L2-normalised sentence embeddings plus a metadata list;  *)
(*   - AlignmentEngine (src/alignment_engine.py): per-bullet signals and   *)
(*     the KEEP / REWRITE / DE_EMPHASIZE decision policy, the analysis of  *)
(*     a list of bullets and the aggregate role match score;               *)
(*   - save and load of the store: three files written one after the       *)
(*     other, each remembered with the number of the save that wrote it.   *)
(*                                                                         *)
(* Numbers.  Scores (similarities, overlaps, thresholds) are exact         *)
(* fixed-point integers in units of 1/Scale.  Vectors are tuples of        *)
(* integers; a unit vector has Euclidean length UnitLen, so the inner      *)
(* product of two unit vectors is an integer in -UnitLen^2 .. UnitLen^2.   *)
(* Texts are sequences of one-character strings, so that lower-casing,     *)
(* whitespace splitting and substring search are computed, not assumed.    *)
(***************************************************************************)
EXTENDS Integers, Sequences, FiniteSets, TLC

(***************************************************************************)
(* Bounds of the model.                                                    *)
(***************************************************************************)
\* most entries the index may hold
MaxEntries == 2
\* most texts handed to one create_embeddings / build_index / add_to_index
MaxBatch == 1
\* the k of search ranges over 0 .. MaxK
MaxK == 3
\* the pure decision function is sampled at i/Grid, i in 0 .. Grid
Grid == 10

(***************************************************************************)
(* Fixed-point representation.                                             *)
(***************************************************************************)
Scale == 6 * 100
UnitLen == 1 * 5
\* x hundredths, in units of 1/Scale
Pct(x) == x * (Scale \div 100)

Min2(a, b) == IF a <= b THEN a ELSE b
Max2(a, b) == IF a >= b THEN a ELSE b

(***************************************************************************)
(* Texts: str.lower(), str.split(), and the substring test `a in b`.       *)
(***************************************************************************)
UpperToLower ==
  [c \in {"A", "G", "I", "L", "M", "O", "P", "Q", "S"} |->
     CASE c = "A" -> "a" [] c = "G" -> "g" [] c = "I" -> "i"
       [] c = "L" -> "l" [] c = "M" -> "m" [] c = "O" -> "o"
       [] c = "P" -> "p" [] c = "Q" -> "q" [] c = "S" -> "s"]

LowerChar(c) == IF c \in DOMAIN UpperToLower THEN UpperToLower[c] ELSE c

\* str.lower()
Lower(t) == [i \in 1..Len(t) |-> LowerChar(t[i])]

\* `a in b` for strings: a occurs in b as a contiguous run (the empty string
\* occurs in every string)
IsSubstring(a, b) ==
  \E i \in 0..(Len(b) - Len(a)) : SubSeq(b, i + 1, i + Len(a)) = a

\* set(t.split()): the maximal runs of non-space characters
WordSet(t) ==
  { SubSeq(t, i, j) : <<i, j>> \in
      { p \in (1..Len(t)) \X (1..Len(t)) :
          /\ p[1] <= p[2]
          /\ \A m \in p[1]..p[2] : t[m] # " "
          /\ (p[1] = 1 \/ t[p[1] - 1] = " ")
          /\ (p[2] = Len(t) \/ t[p[2] + 1] = " ") } }

TxtGoApi == <<"G", "o", " ", "a", "p", "i">>
TxtSql == <<"s", "q", "l">>
TxtGoSql == <<"g", "o", " ", "s", "q", "l">>
TxtMl == <<"M", "L">>
TxtBlank == <<" ">>

\* the texts used as bullets, profile entries and job descriptions
Texts == {TxtGoApi, TxtSql, TxtGoSql, TxtMl, TxtBlank}

(***************************************************************************)
(* Vectors: the embedding provider, faiss.normalize_L2, inner product.     *)
(***************************************************************************)
\* np.dot; the vectors have two components, or three for the other model
Dot(u, v) ==
  u[1] * v[1] + u[2] * v[2] + (IF Len(u) >= 3 THEN u[3] * v[3] ELSE 0)

\* the Euclidean length of v (the vectors used have integral lengths)
Norm(v) == CHOOSE n \in 0..(4 * UnitLen) : n * n = Dot(v, v)

\* faiss.normalize_L2 on one row: divide by the length; a zero row is left alone
NormalizeL2(v) ==
  IF Norm(v) = 0 THEN v
  ELSE [i \in 1..Len(v) |-> (v[i] * UnitLen) \div Norm(v)]

\* SentenceTransformer.encode on one text: a fixed, deterministic table of
\* raw (not normalised) embeddings
Encode(t) ==
  CASE t = TxtGoApi -> <<6, 8>>
    [] t = TxtSql -> <<5, 0>>
    [] t = TxtGoSql -> <<4, 3>>
    [] t = TxtMl -> <<-3, 4>>
    [] t = TxtBlank -> <<0, 10>>

\* inner product of two normalised vectors as a score in units of 1/Scale
Score(u, v) == Dot(u, v) * (Scale \div (UnitLen * UnitLen))

\* model.encode([t]) followed by normalize_L2, tabulated over the texts
UnitEmbedding == [t \in Texts |-> NormalizeL2(Encode(t))]

\* set(t.lower().split()), tabulated over the texts
LowerWords == [t \in Texts |-> WordSet(Lower(t))]

(***************************************************************************)
(* State.                                                                  *)
(***************************************************************************)
VARIABLES
  index,         \* EmbeddingStore.index: [built |-> FALSE] is None, else the rows held
  metadata,      \* EmbeddingStore.metadata
  tieOrder,      \* how the FAISS build in use orders exactly equal scores
  jd_embedding,  \* AlignmentEngine.jd_embedding: <<>> is None
  jd_keywords,   \* AlignmentEngine.jd_keywords
  thresholds,    \* similarity_threshold, rewrite_threshold, keep_threshold
  ret,           \* the last call made and what it returned
  targets,       \* history: the texts of the last two set_job_description calls
  dIn,           \* inputs handed to _make_decision, or to
                 \* calculate_role_match_score, on its own
  dOut,          \* what the function returned for dIn
  dimension,     \* EmbeddingStore.dimension
  model_name,    \* EmbeddingStore.model_name
  disk,          \* the files <filepath>.faiss, .metadata and .config
  saves,         \* history: how many save calls have written to the disk
  lastSave,      \* history: the store as the last completed save saw it
  threads        \* the calls in progress on threads: position and locals

\* the fields and files only save, load and a restart touch
persistVars == <<dimension, model_name, disk, saves, lastSave>>

vars == <<index, metadata, tieOrder, jd_embedding, jd_keywords, thresholds,
          ret, targets, dIn, dOut, persistVars, threads>>

\* the threads that call search and analyze_bullet at the same time
ThreadIds == {1, 2}

\* a thread that is in no call: op is the method called, text and k (or
\* match_analysis) its arguments, pc the statement it is at; q, hits, sim,
\* relevant and kw are the method's local variables, result what it returns
IdleThread ==
  [pc |-> "idle", op |-> "none", text |-> <<>>, k |-> 0,
   match_analysis |-> <<>>, q |-> <<>>, hits |-> <<>>, sim |-> 0,
   relevant |-> <<>>, kw |-> 0, result |-> <<>>, mixed |-> FALSE]

NoThreads == [t \in ThreadIds |-> IdleThread]

NoIndex == [built |-> FALSE, d |-> 0, xb |-> <<>>]
NoVector == <<>>
EmptyText == <<>>
NoCall == [op |-> "none"]

(***************************************************************************)
(* EmbeddingStore.                                                         *)
(***************************************************************************)
\* the texts the profile is made of
ProfileTexts == {TxtGoApi, TxtMl}

\* every list of 0 .. n profile texts
RECURSIVE TextLists(_)
TextLists(n) ==
  IF n = 0 THEN {<<>>}
  ELSE LET shorter == TextLists(n - 1)
       IN shorter \cup { Append(l, t) : l \in { x \in shorter : Len(x) = n - 1 },
                                         t \in ProfileTexts }

\* the batches of texts the mutating operations are called with
Batches == TextLists(MaxBatch)

\* metadata = [{"text": text, "index": start + i} for i, text in enumerate(texts)]
DefaultMetadata(texts, start) ==
  [i \in 1..Len(texts) |-> [text |-> texts[i], index |-> start + i - 1]]

\* self.model.get_sentence_embedding_dimension(): the length of the rows the
\* embedding provider returns
EncoderDimension == 2

\* the model name a store is constructed with
DefaultModelName == "all-MiniLM-L6-v2"

\* An embeddings array is written [d |-> its shape[1], rows |-> its rows], so
\* that an array of no rows still has its number of columns.
\* model.encode(texts) for one text or more: one raw embedding per text
EncodeAll(texts) ==
  [d |-> EncoderDimension, rows |-> [i \in 1..Len(texts) |-> Encode(texts[i])]]

\* the embeddings build_index is handed together with texts: those of the
\* texts, and for no texts an array of no rows of the provider's width
RowsOf(texts) ==
  IF texts = <<>> THEN [d |-> EncoderDimension, rows |-> <<>>]
  ELSE EncodeAll(texts)

\* faiss.normalize_L2(embeddings): every row
NormalizeRows(embeddings) ==
  [i \in 1..Len(embeddings.rows) |-> NormalizeL2(embeddings.rows[i])]

\* index.ntotal
NTotal(ix) == Len(ix.xb)

\* create_embeddings(texts): returns the embeddings and extends the metadata
\* list, whether or not the embeddings are ever indexed
CreateEmbeddings(texts) ==
  /\ Len(texts) >= 1
  /\ Len(metadata) + Len(texts) <= MaxEntries
  /\ metadata' = metadata \o DefaultMetadata(texts, 0)
  /\ ret' = [op |-> "create_embeddings", texts |-> texts,
             embeddings |-> EncodeAll(texts)]
  /\ UNCHANGED <<index, tieOrder, jd_embedding, jd_keywords, thresholds,
                 targets, dIn, dOut,
                 persistVars, threads>>

\* embeddings.shape[1]
RowDimension(embeddings) == embeddings.d

\* embeddings a caller hands over whose rows are not of the provider's
\* length: an array of three columns, of no rows when there are no texts
MismatchedRows(texts) ==
  [d |-> 3, rows |-> [i \in 1..Len(texts) |-> <<3, 4, 0>>]]

\* faiss.IndexFlatIP(dim): an index of dimension dim holding no rows
EmptyIndex(dim) == [built |-> TRUE, d |-> dim, xb |-> <<>>]

\* the store after build_index(embeddings, texts): a fresh index of the
\* normalised rows, and the metadata list replaced
BuiltIndex(embeddings) ==
  [built |-> TRUE, d |-> dimension, xb |-> NormalizeRows(embeddings)]

\* build_index(embeddings, texts) on the store: index.add asserts that the
\* rows have the index's dimension; by then self.index is already the fresh
\* empty index, and self.metadata is not yet assigned
BuildOutcome(embeddings, texts) ==
  IF RowDimension(embeddings) # dimension
    THEN [index |-> EmptyIndex(dimension), metadata |-> metadata,
          raised |-> "AssertionError"]
    ELSE [index |-> BuiltIndex(embeddings),
          metadata |-> DefaultMetadata(texts, 0), raised |-> "none"]

BuildIndex(embeddings, texts) ==
  /\ Len(texts) <= MaxEntries
  /\ index' = BuildOutcome(embeddings, texts).index
  /\ metadata' = BuildOutcome(embeddings, texts).metadata
  /\ ret' = [op |-> "build_index", texts |-> texts,
             rows |-> RowDimension(embeddings),
             raised |-> BuildOutcome(embeddings, texts).raised]
  /\ UNCHANGED <<tieOrder, jd_embedding, jd_keywords, thresholds, targets,
                 dIn, dOut, persistVars, threads>>

\* mutation: the new rows and their metadata are put in front of the old
AppendOutcomeInFront(embeddings, texts) ==
  IF RowDimension(embeddings) # index.d
    THEN [index |-> index, metadata |-> metadata, raised |-> "AssertionError"]
    ELSE [index |-> [index EXCEPT !.xb = NormalizeRows(embeddings) \o @],
          metadata |-> DefaultMetadata(texts, Len(metadata)) \o metadata,
          raised |-> "none"]

\* add_to_index(embeddings, texts) on a store that has an index: index.add
\* asserts that the rows have the index's dimension, before anything is
\* stored; else the normalised rows are appended and the metadata extended
AppendOutcome(embeddings, texts) ==
  IF RowDimension(embeddings) # index.d
    THEN [index |-> index, metadata |-> metadata, raised |-> "AssertionError"]
    ELSE [index |-> [index EXCEPT !.xb = @ \o NormalizeRows(embeddings)],
          metadata |-> metadata \o DefaultMetadata(texts, Len(metadata)),
          raised |-> "none"]

\* add_to_index(embeddings, texts): build_index when there is no index yet
AddOutcome(embeddings, texts) ==
  IF ~index.built THEN BuildOutcome(embeddings, texts)
  ELSE AppendOutcome(embeddings, texts)

AddToIndex(embeddings, texts) ==
  /\ Len(texts) >= 1
  /\ IF ~index.built
       THEN Len(texts) <= MaxEntries
       ELSE /\ NTotal(index) + Len(texts) <= MaxEntries
            /\ Len(metadata) + Len(texts) <= MaxEntries
  /\ index' = AddOutcome(embeddings, texts).index
  /\ metadata' = AddOutcome(embeddings, texts).metadata
  /\ ret' = [op |-> "add_to_index", texts |-> texts,
             rows |-> RowDimension(embeddings),
             raised |-> AddOutcome(embeddings, texts).raised]
  /\ UNCHANGED <<tieOrder, jd_embedding, jd_keywords, thresholds, targets,
                 dIn, dOut, persistVars, threads>>

(***************************************************************************)
(* IndexFlatIP.search(q, k): the k rows of largest inner product with q,   *)
(* by descending inner product.  FAISS does not specify the order of rows  *)
(* whose inner products are exactly equal; tie is the order of the build   *)
(* in use: "asc" ranks the earlier row first, "desc" the later one.        *)
(***************************************************************************)
RanksBefore(xb, q, tie, i, j) ==
  \/ Score(q, xb[i]) > Score(q, xb[j])
  \/ /\ Score(q, xb[i]) = Score(q, xb[j])
     /\ IF tie = "asc" THEN i < j ELSE i > j

\* the 1-based row at rank r (r = 1 is the best match)
RowAtRank(xb, q, tie, r) ==
  CHOOSE i \in 1..Len(xb) :
    Cardinality({ j \in 1..Len(xb) : RanksBefore(xb, q, tie, j, i) }) = r - 1

\* the distance FAISS reports with the id -1, for a slot it could not fill
MissingDist == 0 - Scale * Scale

\* (distances[0], indices[0]) zipped: k pairs, ids 0-based as FAISS gives them;
\* past the rows of the index the id is -1
FlatIPSearch(xb, q, k, tie) ==
  [r \in 1..k |->
     IF r <= Len(xb)
       THEN LET i == RowAtRank(xb, q, tie, r)
            IN [dist |-> Score(q, xb[i]), idx |-> i - 1]
       ELSE [dist |-> MissingDist, idx |-> -1]]

\* mutation: the loop puts each kept hit in front of the earlier ones
RECURSIVE SelectHitsReversed(_, _)
SelectHitsReversed(hits, meta) ==
  IF hits = <<>> THEN <<>>
  ELSE LET h == Head(hits)
           rest == SelectHitsReversed(Tail(hits), meta)
       IN IF h.idx < Len(meta) /\ h.idx >= 0
            THEN rest \o <<[score |-> h.dist, meta |-> meta[h.idx + 1]]>>
            ELSE rest

\* the loop of search over the hits: a hit whose id has a metadata entry
\* becomes (score, metadata[id]); the others are skipped
RECURSIVE SelectHits(_, _)
SelectHits(hits, meta) ==
  IF hits = <<>> THEN <<>>
  ELSE LET h == Head(hits)
           rest == SelectHits(Tail(hits), meta)
       IN IF h.idx < Len(meta) /\ h.idx >= 0
            THEN <<[score |-> h.dist, meta |-> meta[h.idx + 1]]>> \o rest
            ELSE rest

\* mutation: max instead of min
SearchKMax(k, ntotal) == Max2(k, ntotal)

\* min(k, self.index.ntotal)
SearchK(k, ntotal) == Min2(k, ntotal)

\* the FAISS hits search(query, k) gets back from the index
SearchHits(ix, tie, query, k) ==
  IF ~ix.built \/ NTotal(ix) = 0 THEN <<>>
  ELSE LET search_k == SearchK(k, NTotal(ix))
       IN IF search_k = 0 THEN <<>>
          ELSE FlatIPSearch(ix.xb, UnitEmbedding[query], search_k, tie)

\* EmbeddingStore.search(query, k) on a store (ix, meta)
Search(ix, meta, tie, query, k) ==
  SelectHits(SearchHits(ix, tie, query, k), meta)

\* history: the index rows (0-based) behind the results of search(query, k)
RECURSIVE KeptIds(_, _)
KeptIds(hits, meta) ==
  IF hits = <<>> THEN <<>>
  ELSE IF Head(hits).idx < Len(meta) /\ Head(hits).idx >= 0
         THEN <<Head(hits).idx>> \o KeptIds(Tail(hits), meta)
         ELSE KeptIds(Tail(hits), meta)

RECURSIVE AboveThreshold(_, _)
AboveThreshold(results, threshold) ==
  IF results = <<>> THEN <<>>
  ELSE IF Head(results).score >= threshold
         THEN <<Head(results).meta>> \o AboveThreshold(Tail(results), threshold)
         ELSE AboveThreshold(Tail(results), threshold)

\* mutation: every row of the index is a candidate, not only the top_k best
GetRelevantEntriesExhaustive(ix, meta, tie, query, threshold, top_k) ==
  AboveThreshold(Search(ix, meta, tie, query, NTotal(ix)), threshold)

\* EmbeddingStore.get_relevant_entries(query, threshold, top_k)
GetRelevantEntries(ix, meta, tie, query, threshold, top_k) ==
  AboveThreshold(Search(ix, meta, tie, query, top_k), threshold)

\* the texts search is called with
QueryTexts == {TxtGoApi, TxtSql, TxtBlank}

\* a call of search(query, k)
SearchCall(query, k) ==
  /\ ret' = [op |-> "search", query |-> query, k |-> k,
             results |-> Search(index, metadata, tieOrder, query, k),
             ids |-> KeptIds(SearchHits(index, tieOrder, query, k), metadata)]
  /\ UNCHANGED <<index, metadata, tieOrder, jd_embedding, jd_keywords,
                 thresholds, targets, dIn, dOut,
                 persistVars, threads>>

\* history: the index rows (0-based) behind the entries of results that reach
\* the threshold, ids being the rows behind results
RECURSIVE AboveThresholdIds(_, _, _)
AboveThresholdIds(results, ids, threshold) ==
  IF results = <<>> THEN <<>>
  ELSE IF Head(results).score >= threshold
         THEN <<Head(ids)>> \o AboveThresholdIds(Tail(results), Tail(ids), threshold)
         ELSE AboveThresholdIds(Tail(results), Tail(ids), threshold)

\* the thresholds get_relevant_entries is called with: the default, and two
\* that some score equals exactly
ThresholdInputs == {Pct(60), Pct(80), Pct(28)}

\* a call of get_relevant_entries(query, threshold, top_k)
GetRelevantEntriesCall(query, threshold, top_k) ==
  /\ ret' = [op |-> "get_relevant_entries", query |-> query,
             threshold |-> threshold, top_k |-> top_k,
             relevant |-> GetRelevantEntries(index, metadata, tieOrder, query,
                                             threshold, top_k),
             ids |-> AboveThresholdIds(
                       Search(index, metadata, tieOrder, query, top_k),
                       KeptIds(SearchHits(index, tieOrder, query, top_k),
                               metadata),
                       threshold)]
  /\ UNCHANGED <<index, metadata, tieOrder, jd_embedding, jd_keywords,
                 thresholds, targets, dIn, dOut, persistVars, threads>>

(***************************************************************************)
(* save and load.  A store on disk is three files, <filepath>.faiss,       *)
(* .metadata and .config, which save writes one after the other.  Each     *)
(* file carries, as history, the number of the save call that wrote it.    *)
(***************************************************************************)
\* most save calls that write to the disk
MaxSaves == 2

NoFile == [exists |-> FALSE, gen |-> 0, content |-> <<>>]
File(gen, content) == [exists |-> TRUE, gen |-> gen, content |-> content]

\* no store at the path
NoDisk == [faiss |-> NoFile, metadata |-> NoFile, config |-> NoFile]

\* another embedding model, whose vectors are one component longer
OtherModelName == "all-mpnet-base-v2"
OtherDimension == EncoderDimension + 1

\* the store a run configured with the other model has saved at the path
OtherDisk ==
  [faiss |-> File(0, [built |-> TRUE, d |-> OtherDimension,
                      xb |-> << <<3, 4, 0>> >>]),
   metadata |-> File(0, << [text |-> TxtMl, index |-> 0] >>),
   config |-> File(0, [model_name |-> OtherModelName,
                       dimension |-> OtherDimension, size |-> 1])]

NoSave ==
  [gen |-> 0, index |-> NoIndex, metadata |-> <<>>, dimension |-> 0,
   model_name |-> ""]

\* the store as constructed, and nothing at the path
PersistInit ==
  /\ dimension = EncoderDimension
  /\ model_name = DefaultModelName
  /\ disk = NoDisk
  /\ saves = 0
  /\ lastSave = NoSave

\* the config record save writes
ConfigRecord ==
  [model_name |-> model_name, dimension |-> dimension, size |-> NTotal(index)]

\* the disk after the first n of the three writes of save call number g:
\* write_index, then pickle.dump of the metadata, then json.dump of the config
DiskAfterWrites(n, g) ==
  [faiss |-> IF n >= 1 THEN File(g, index) ELSE disk.faiss,
   metadata |-> IF n >= 2 THEN File(g, metadata) ELSE disk.metadata,
   config |-> IF n >= 3 THEN File(g, ConfigRecord) ELSE disk.config]

\* save(): ValueError when there is no index, else the three writes
Save ==
  /\ saves < MaxSaves
  /\ IF ~index.built
       THEN /\ ret' = [op |-> "save", raised |-> "ValueError"]
            /\ UNCHANGED <<disk, saves, lastSave>>
       ELSE /\ disk' = DiskAfterWrites(3, saves + 1)
            /\ saves' = saves + 1
            /\ lastSave' = [gen |-> saves + 1, index |-> index,
                            metadata |-> metadata, dimension |-> dimension,
                            model_name |-> model_name]
            /\ ret' = [op |-> "save", raised |-> "none"]
  /\ UNCHANGED <<index, metadata, tieOrder, jd_embedding, jd_keywords,
                 thresholds, targets, dIn, dOut, dimension, model_name,
                 threads>>

\* EmbeddingStore(): a new process constructs its store; the disk stays
NewStore ==
  /\ index' = NoIndex
  /\ metadata' = <<>>
  /\ dimension' = EncoderDimension
  /\ model_name' = DefaultModelName
  /\ ret' = [op |-> "__init__"]
  /\ UNCHANGED <<tieOrder, jd_embedding, jd_keywords, thresholds, targets,
                 dIn, dOut, disk, saves, lastSave, threads>>

\* save() cut short after its first n writes (n = 1 or 2): the process is
\* gone, and the next one constructs its store anew
SaveInterrupted(n) ==
  /\ saves < MaxSaves
  /\ index.built
  /\ disk' = DiskAfterWrites(n, saves + 1)
  /\ saves' = saves + 1
  /\ index' = NoIndex
  /\ metadata' = <<>>
  /\ dimension' = EncoderDimension
  /\ model_name' = DefaultModelName
  /\ ret' = [op |-> "save", raised |-> "interrupted"]
  /\ UNCHANGED <<tieOrder, jd_embedding, jd_keywords, thresholds, targets,
                 dIn, dOut, lastSave, threads>>

\* mutation: the metadata file is read but self.metadata is not assigned
LoadOutcomeKeepsMetadata ==
  IF ~disk.faiss.exists
    THEN [index |-> index, metadata |-> metadata, dimension |-> dimension,
          model_name |-> model_name, raised |-> "FileNotFoundError"]
    ELSE IF ~disk.metadata.exists
      THEN [index |-> disk.faiss.content, metadata |-> metadata,
            dimension |-> dimension, model_name |-> model_name,
            raised |-> "FileNotFoundError"]
      ELSE IF ~disk.config.exists
        THEN [index |-> disk.faiss.content, metadata |-> metadata,
              dimension |-> dimension, model_name |-> model_name,
              raised |-> "FileNotFoundError"]
        ELSE [index |-> disk.faiss.content, metadata |-> metadata,
              dimension |-> disk.config.content.dimension,
              model_name |-> disk.config.content.model_name,
              raised |-> "none"]

\* load(): FileNotFoundError when the .faiss file is missing; else the fields
\* are assigned one file after the other, so a missing .metadata or .config
\* file raises with the fields before it already replaced.  The size the
\* config records and the dimension the store had are not compared with
\* anything.
LoadOutcome ==
  IF ~disk.faiss.exists
    THEN [index |-> index, metadata |-> metadata, dimension |-> dimension,
          model_name |-> model_name, raised |-> "FileNotFoundError"]
    ELSE IF ~disk.metadata.exists
      THEN [index |-> disk.faiss.content, metadata |-> metadata,
            dimension |-> dimension, model_name |-> model_name,
            raised |-> "FileNotFoundError"]
      ELSE IF ~disk.config.exists
        THEN [index |-> disk.faiss.content,
              metadata |-> disk.metadata.content,
              dimension |-> dimension, model_name |-> model_name,
              raised |-> "FileNotFoundError"]
        ELSE [index |-> disk.faiss.content,
              metadata |-> disk.metadata.content,
              dimension |-> disk.config.content.dimension,
              model_name |-> disk.config.content.model_name,
              raised |-> "none"]

\* a call of load(); ret keeps the dimension the store had before the call
Load ==
  /\ index' = LoadOutcome.index
  /\ metadata' = LoadOutcome.metadata
  /\ dimension' = LoadOutcome.dimension
  /\ model_name' = LoadOutcome.model_name
  /\ ret' = [op |-> "load", raised |-> LoadOutcome.raised,
             configured |-> dimension,
             gens |-> <<disk.faiss.gen, disk.metadata.gen, disk.config.gen>>]
  /\ UNCHANGED <<tieOrder, jd_embedding, jd_keywords, thresholds, targets,
                 dIn, dOut, disk, saves, lastSave, threads>>

(***************************************************************************)
(* ATSResumeOptimizer.step2_create_embedding_store(rebuild=False): load    *)
(* the store when its .faiss file is there, and build it from the profile  *)
(* bullets and save it when there is none or when the load raises.         *)
(***************************************************************************)
\* the metadata main.py hands to create_embeddings and to build_index
ProfileMetadata(bullets) ==
  [i \in 1..Len(bullets) |->
     [text |-> bullets[i], source |-> "profile", index |-> i - 1]]

\* the profile bullets the step is run with: none, one, two
ProfileBullets == {<<>>, <<TxtGoApi>>, <<TxtMl, TxtGoApi>>}

\* the store's fields when the step gets past its load: as load left them
\* when it raised, untouched when the .faiss file is missing
AfterFailedLoad ==
  IF disk.faiss.exists THEN LoadOutcome
  ELSE [index |-> index, metadata |-> metadata, dimension |-> dimension,
        model_name |-> model_name, raised |-> "none"]

\* mutation: the rebuild adds to whatever index the failed load left behind
Step2OutcomeAddsToLoaded(bullets) ==
  IF disk.faiss.exists /\ LoadOutcome.raised = "none"
    THEN [store |-> LoadOutcome, path |-> "loaded", raised |-> "none",
          saved |-> FALSE]
    ELSE IF bullets = <<>>
      THEN [store |-> AfterFailedLoad, path |-> "rebuilt",
            raised |-> "ValueError", saved |-> FALSE]
      ELSE LET s0 == AfterFailedLoad
               old == IF s0.index.built THEN s0.index.xb ELSE <<>>
           IN [store |->
                 [index |-> [built |-> TRUE, d |-> s0.dimension,
                             xb |-> old \o NormalizeRows(EncodeAll(bullets))],
                  metadata |-> s0.metadata \o ProfileMetadata(bullets),
                  dimension |-> s0.dimension, model_name |-> s0.model_name,
                  raised |-> "none"],
               path |-> "rebuilt", raised |-> "none", saved |-> TRUE]

\* the step on the store and the disk as they are: the store it leaves, the
\* way it took, what it raised and whether it saved
Step2Outcome(bullets) ==
  IF disk.faiss.exists /\ LoadOutcome.raised = "none"
    THEN [store |-> LoadOutcome, path |-> "loaded", raised |-> "none",
          saved |-> FALSE]
    ELSE IF bullets = <<>>
      THEN [store |-> AfterFailedLoad, path |-> "rebuilt",
            raised |-> "ValueError", saved |-> FALSE]
      ELSE LET s0 == AfterFailedLoad
               embeddings == EncodeAll(bullets)
               extended == s0.metadata \o ProfileMetadata(bullets)
           IN IF RowDimension(embeddings) # s0.dimension
                THEN [store |-> [index |-> EmptyIndex(s0.dimension),
                                 metadata |-> extended,
                                 dimension |-> s0.dimension,
                                 model_name |-> s0.model_name,
                                 raised |-> "AssertionError"],
                      path |-> "rebuilt", raised |-> "AssertionError",
                      saved |-> FALSE]
                ELSE [store |-> [index |-> [built |-> TRUE, d |-> s0.dimension,
                                            xb |-> NormalizeRows(embeddings)],
                                 metadata |-> ProfileMetadata(bullets),
                                 dimension |-> s0.dimension,
                                 model_name |-> s0.model_name,
                                 raised |-> "none"],
                      path |-> "rebuilt", raised |-> "none", saved |-> TRUE]

\* the three files save writes for the store st, as save call number g
DiskOf(st, g) ==
  [faiss |-> File(g, st.index),
   metadata |-> File(g, st.metadata),
   config |-> File(g, [model_name |-> st.model_name,
                       dimension |-> st.dimension,
                       size |-> NTotal(st.index)])]

\* a call of step2_create_embedding_store(rebuild=False) on a profile with
\* these bullets
Step2CreateEmbeddingStore(bullets) ==
  /\ saves < MaxSaves
  /\ LET out == Step2Outcome(bullets)
     IN /\ index' = out.store.index
        /\ metadata' = out.store.metadata
        /\ dimension' = out.store.dimension
        /\ model_name' = out.store.model_name
        /\ disk' = IF out.saved THEN DiskOf(out.store, saves + 1) ELSE disk
        /\ saves' = IF out.saved THEN saves + 1 ELSE saves
        /\ lastSave' = IF out.saved
                          THEN [gen |-> saves + 1, index |-> out.store.index,
                                metadata |-> out.store.metadata,
                                dimension |-> out.store.dimension,
                                model_name |-> out.store.model_name]
                          ELSE lastSave
        /\ ret' = [op |-> "step2_create_embedding_store", bullets |-> bullets,
                   tried |-> disk.faiss.exists,
                   load_raised |-> IF disk.faiss.exists
                                     THEN LoadOutcome.raised ELSE "none",
                   left |-> AfterFailedLoad,
                   path |-> out.path, raised |-> out.raised]
  /\ UNCHANGED <<tieOrder, jd_embedding, jd_keywords, thresholds, targets,
                 dIn, dOut, threads>>

(***************************************************************************)
(* AlignmentEngine.                                                        *)
(***************************************************************************)
\* __init__ defaults, in hundredths
DefaultSimilarityThreshold == 60
DefaultRewriteThreshold == 40
DefaultKeepThreshold == 75

DefaultThresholds ==
  [similarity_threshold |-> Pct(DefaultSimilarityThreshold),
   rewrite_threshold |-> Pct(DefaultRewriteThreshold),
   keep_threshold |-> Pct(DefaultKeepThreshold)]

\* the threshold configurations an engine is constructed with: the defaults,
\* one with a rewrite threshold at the no-evidence floor, one with a zero
\* keep threshold
EngineThresholds ==
  { DefaultThresholds,
    [similarity_threshold |-> Pct(80), rewrite_threshold |-> Pct(4),
     keep_threshold |-> Pct(50)],
    [similarity_threshold |-> Pct(60), rewrite_threshold |-> Pct(40),
     keep_threshold |-> Pct(0)] }

\* mutation: the evidence term inverted, 0.2 with evidence and 0.8 without
CombinedScoreEvidenceInverted(jd_similarity, has_evidence, keyword_score, profile_alignment) ==
  jd_similarity * 40 + keyword_score * 25
    + (IF has_evidence THEN Pct(20) ELSE Pct(80)) * 20
    + profile_alignment * 15

\* 100 * combined_score, in units of 1/Scale
CombinedScore100(jd_similarity, has_evidence, keyword_score, profile_alignment) ==
  jd_similarity * 40 + keyword_score * 25
    + (IF has_evidence THEN Pct(80) ELSE Pct(20)) * 20
    + profile_alignment * 15

\* rules (b)-(d) of _make_decision as the code has them, for the mutations
ScoreRules(jd_similarity, has_evidence, keyword_score, profile_alignment, th) ==
  LET combined100 == CombinedScore100(jd_similarity, has_evidence,
                                      keyword_score, profile_alignment)
  IN IF /\ combined100 >= 100 * th.keep_threshold
        /\ jd_similarity >= th.keep_threshold
       THEN "KEEP"
       ELSE IF combined100 >= 100 * th.rewrite_threshold
              THEN "REWRITE"
              ELSE "DE_EMPHASIZE"

\* mutation: the keep rule compares the similarity with > instead of >=
MakeDecisionStrictKeep(jd_similarity, has_evidence, keyword_score, profile_alignment, should_emphasize, should_add, th) ==
  LET combined100 == CombinedScore100(jd_similarity, has_evidence,
                                      keyword_score, profile_alignment)
  IN IF should_emphasize /\ has_evidence
       THEN IF 10 * jd_similarity >= 9 * th.keep_threshold
              THEN "KEEP"
              ELSE "REWRITE"
       ELSE IF /\ combined100 >= 100 * th.keep_threshold
               /\ jd_similarity > th.keep_threshold
              THEN "KEEP"
              ELSE IF combined100 >= 100 * th.rewrite_threshold
                     THEN "REWRITE"
                     ELSE "DE_EMPHASIZE"

\* mutation: the should_add branch returns ADD instead of falling through
MakeDecisionEmitsAdd(jd_similarity, has_evidence, keyword_score, profile_alignment, should_emphasize, should_add, th) ==
  IF should_emphasize /\ has_evidence
    THEN IF 10 * jd_similarity >= 9 * th.keep_threshold
           THEN "KEEP"
           ELSE "REWRITE"
    ELSE IF should_add /\ ~has_evidence
           THEN "ADD"
           ELSE ScoreRules(jd_similarity, has_evidence, keyword_score,
                           profile_alignment, th)

\* mutation: the should_add branch returns REWRITE instead of falling through
MakeDecisionAddRewrites(jd_similarity, has_evidence, keyword_score, profile_alignment, should_emphasize, should_add, th) ==
  IF should_emphasize /\ has_evidence
    THEN IF 10 * jd_similarity >= 9 * th.keep_threshold
           THEN "KEEP"
           ELSE "REWRITE"
    ELSE IF should_add /\ ~has_evidence
           THEN "REWRITE"
           ELSE ScoreRules(jd_similarity, has_evidence, keyword_score,
                           profile_alignment, th)

\* mutation: the emphasis override is missing
MakeDecisionNoOverride(jd_similarity, has_evidence, keyword_score, profile_alignment, should_emphasize, should_add, th) ==
  ScoreRules(jd_similarity, has_evidence, keyword_score, profile_alignment, th)

\* mutation: the rewrite rule compares the wrong way round
MakeDecisionInvertedRewrite(jd_similarity, has_evidence, keyword_score, profile_alignment, should_emphasize, should_add, th) ==
  LET combined100 == CombinedScore100(jd_similarity, has_evidence,
                                      keyword_score, profile_alignment)
  IN IF should_emphasize /\ has_evidence
       THEN IF 10 * jd_similarity >= 9 * th.keep_threshold
              THEN "KEEP"
              ELSE "REWRITE"
       ELSE IF /\ combined100 >= 100 * th.keep_threshold
               /\ jd_similarity >= th.keep_threshold
              THEN "KEEP"
              ELSE IF combined100 <= 100 * th.rewrite_threshold
                     THEN "REWRITE"
                     ELSE "DE_EMPHASIZE"

\* mutation: the emphasis override asks for 1.1 times the keep threshold
MakeDecisionEmphasisStrict(jd_similarity, has_evidence, keyword_score, profile_alignment, should_emphasize, should_add, th) ==
  IF should_emphasize /\ has_evidence
    THEN IF 10 * jd_similarity >= 11 * th.keep_threshold
           THEN "KEEP"
           ELSE "REWRITE"
    ELSE ScoreRules(jd_similarity, has_evidence, keyword_score,
                    profile_alignment, th)

\* mutation: the keep rule looks at the similarity only
MakeDecisionKeepBySimilarity(jd_similarity, has_evidence, keyword_score, profile_alignment, should_emphasize, should_add, th) ==
  LET combined100 == CombinedScore100(jd_similarity, has_evidence,
                                      keyword_score, profile_alignment)
  IN IF should_emphasize /\ has_evidence
       THEN IF 10 * jd_similarity >= 9 * th.keep_threshold
              THEN "KEEP"
              ELSE "REWRITE"
       ELSE IF jd_similarity >= th.keep_threshold
              THEN "KEEP"
              ELSE IF combined100 >= 100 * th.rewrite_threshold
                     THEN "REWRITE"
                     ELSE "DE_EMPHASIZE"

\* _make_decision
MakeDecision(jd_similarity, has_evidence, keyword_score, profile_alignment, should_emphasize, should_add, th) ==
  LET combined100 == CombinedScore100(jd_similarity, has_evidence,
                                      keyword_score, profile_alignment)
  IN IF should_emphasize /\ has_evidence
       THEN IF 10 * jd_similarity >= 9 * th.keep_threshold
              THEN "KEEP"
              ELSE "REWRITE"
       ELSE IF /\ combined100 >= 100 * th.keep_threshold
               /\ jd_similarity >= th.keep_threshold
              THEN "KEEP"
              ELSE IF combined100 >= 100 * th.rewrite_threshold
                     THEN "REWRITE"
                     ELSE "DE_EMPHASIZE"

\* mutation: the inner product is returned as it is, not clamped
CalculateJdSimilarityRaw(jdEmb, bullet_text) ==
  IF jdEmb = NoVector THEN 0
  ELSE Score(jdEmb, UnitEmbedding[bullet_text])

\* mutation: without a target the similarity defaults to 1.0
CalculateJdSimilarityDefaultOne(jdEmb, bullet_text) ==
  IF jdEmb = NoVector THEN Scale
  ELSE Max2(0, Min2(Scale, Score(jdEmb, UnitEmbedding[bullet_text])))

\* _calculate_jd_similarity: 0.0 without a target, else the inner product of
\* the normalised embeddings clamped to [0, 1]
CalculateJdSimilarity(jdEmb, bullet_text) ==
  IF jdEmb = NoVector THEN 0
  ELSE Max2(0, Min2(Scale, Score(jdEmb, UnitEmbedding[bullet_text])))

\* _calculate_keyword_overlap
CalculateKeywordOverlap(jdKw, bullet_text) ==
  IF jdKw = EmptyText THEN 0
  ELSE LET bullet_words == LowerWords[bullet_text]
           jd_words == LowerWords[jdKw]
       IN IF jd_words = {} THEN 0
          ELSE Min2(Scale,
                    (Cardinality(bullet_words \cap jd_words) * Scale)
                      \div Cardinality(jd_words))

\* _generate_reasoning: the similarity bucket and which clauses are reported
GenerateReasoning(jd_similarity, has_evidence, keyword_score, decision, profile_alignment) ==
  [decision |-> decision,
   similarity |-> IF jd_similarity >= Pct(70) THEN "High"
                  ELSE IF jd_similarity >= Pct(50) THEN "Moderate" ELSE "Low",
   jd_similarity |-> jd_similarity,
   evidence |-> IF has_evidence THEN "Has supporting evidence in profile"
                ELSE "Limited evidence in profile",
   keyword |-> keyword_score >= Pct(30),
   profile |-> profile_alignment >= Pct(70)]

\* the skill loop of analyze_bullet: some matched skill occurs in the bullet
SkillMentioned(match_analysis, bullet_text) ==
  \E i \in 1..Len(match_analysis.skill_matches) :
    IsSubstring(Lower(match_analysis.skill_matches[i]), Lower(bullet_text))

\* the recommendations whose (non-empty) topic occurs in the bullet
RecsMentioned(match_analysis, bullet_text, action) ==
  { i \in 1..Len(match_analysis.recommendations) :
      LET rec == match_analysis.recommendations[i]
      IN /\ Lower(rec.skill_or_topic) # EmptyText
         /\ IsSubstring(Lower(rec.skill_or_topic), Lower(bullet_text))
         /\ rec.action = action }

\* mutation: the recommendations are scanned only when no skill matched
ProfileSignalsSkillFirst(match_analysis, bullet_text) ==
  IF ~match_analysis.given
    THEN [profile_alignment |-> 0, should_emphasize |-> FALSE,
          should_add |-> FALSE]
    ELSE IF SkillMentioned(match_analysis, bullet_text)
      THEN [profile_alignment |-> Pct(80), should_emphasize |-> TRUE,
            should_add |-> FALSE]
      ELSE LET emph == RecsMentioned(match_analysis, bullet_text, "EMPHASIZE") # {}
               add == RecsMentioned(match_analysis, bullet_text, "ADD") # {}
           IN [profile_alignment |-> IF emph THEN Pct(70) ELSE 0,
               should_emphasize |-> emph,
               should_add |-> add]

\* step 5 of analyze_bullet: profile_alignment, should_emphasize, should_add
ProfileSignals(match_analysis, bullet_text) ==
  IF ~match_analysis.given
    THEN [profile_alignment |-> 0, should_emphasize |-> FALSE,
          should_add |-> FALSE]
    ELSE LET skill == SkillMentioned(match_analysis, bullet_text)
             emph == RecsMentioned(match_analysis, bullet_text, "EMPHASIZE") # {}
             add == RecsMentioned(match_analysis, bullet_text, "ADD") # {}
             afterSkills == IF skill THEN Pct(80) ELSE 0
         IN [profile_alignment |->
               IF emph THEN Max2(afterSkills, Pct(70)) ELSE afterSkills,
             should_emphasize |-> skill \/ emph,
             should_add |-> add]

\* external hints: match_analysis, as the profile analyzer hands it over
SkGo == <<"g", "o">>
SkSql == <<"S", "Q", "L">>
SkApi == <<"A", "P", "I">>
SkMl == <<"m", "l">>

NoHints == [given |-> FALSE, skill_matches |-> <<>>, recommendations |-> <<>>]

HintSets ==
  { NoHints,
    [given |-> TRUE, skill_matches |-> <<SkGo>>, recommendations |-> <<>>],
    [given |-> TRUE, skill_matches |-> <<>>,
     recommendations |-> <<[action |-> "ADD", skill_or_topic |-> SkApi]>>],
    [given |-> TRUE, skill_matches |-> <<SkSql>>,
     recommendations |-> <<[action |-> "EMPHASIZE", skill_or_topic |-> SkGo],
                           [action |-> "ADD", skill_or_topic |-> SkSql],
                           [action |-> "REWRITE", skill_or_topic |-> SkMl]>>] }

\* the texts set_job_description is called with
JobTexts == {TxtGoSql, TxtBlank}

\* the texts analyze_bullet is called with
BulletTexts == {TxtGoApi, TxtSql, TxtGoSql}

\* step 5 of analyze_bullet, tabulated over the hints and the bullets
HintSignals ==
  [h \in HintSets, t \in BulletTexts |-> ProfileSignals(h, t)]

\* relevant_entries[:3]
FirstThree(entries) == SubSeq(entries, 1, Min2(3, Len(entries)))

\* analyze_bullet on an engine (jdEmb, jdKw, th) over a store (ix, meta)
AnalyzeBullet(ix, meta, tie, jdEmb, jdKw, th, bullet_text, match_analysis) ==
  LET jd_similarity == CalculateJdSimilarity(jdEmb, bullet_text)
      relevant_entries == GetRelevantEntries(ix, meta, tie, bullet_text,
                                             th.similarity_threshold, 5)
      has_evidence == Len(relevant_entries) > 0
      keyword_score == CalculateKeywordOverlap(jdKw, bullet_text)
      sig == HintSignals[match_analysis, bullet_text]
      decision == MakeDecision(jd_similarity, has_evidence, keyword_score,
                               sig.profile_alignment, sig.should_emphasize,
                               sig.should_add, th)
  IN [bullet |-> bullet_text,
      jd_similarity |-> jd_similarity,
      has_evidence |-> has_evidence,
      relevant_entries |-> FirstThree(relevant_entries),
      keyword_score |-> keyword_score,
      profile_alignment |-> sig.profile_alignment,
      should_emphasize |-> sig.should_emphasize,
      decision |-> decision,
      reasoning |-> GenerateReasoning(jd_similarity, has_evidence,
                                      keyword_score, decision,
                                      sig.profile_alignment)]

\* mutation: the embedding is computed only when none is stored yet
SetTargetKeepsEmbedding(oldKw, oldEmb, text) ==
  [jd_keywords |-> text,
   jd_embedding |-> IF oldEmb = NoVector THEN UnitEmbedding[text] ELSE oldEmb]

\* the engine's target after set_job_description(text) on an engine whose
\* target was (oldKw, oldEmb): both fields are overwritten
SetTarget(oldKw, oldEmb, text) ==
  [jd_keywords |-> text, jd_embedding |-> UnitEmbedding[text]]

\* a call of set_job_description(text)
SetJobDescription(text) ==
  /\ jd_keywords' = SetTarget(jd_keywords, jd_embedding, text).jd_keywords
  /\ jd_embedding' = SetTarget(jd_keywords, jd_embedding, text).jd_embedding
  /\ targets' = IF targets = <<>> THEN <<text>>
                ELSE <<targets[Len(targets)], text>>
  /\ ret' = [op |-> "set_job_description", text |-> text]
  /\ UNCHANGED <<index, metadata, tieOrder, thresholds, dIn, dOut,
                 persistVars, threads>>

\* a call of set_job_description(text) in which model.encode raises: the
\* text is already stored (line 27), the embedding is not assigned (line 29)
SetJobDescriptionRaises(text) ==
  /\ jd_keywords' = text
  /\ jd_embedding' = jd_embedding
  /\ targets' = IF targets = <<>> THEN <<text>>
                ELSE <<targets[Len(targets)], text>>
  /\ ret' = [op |-> "set_job_description", text |-> text,
             raised |-> "encode"]
  /\ UNCHANGED <<index, metadata, tieOrder, thresholds, dIn, dOut,
                 persistVars, threads>>

\* a call of analyze_bullet({"text": bullet_text}, None, match_analysis)
AnalyzeBulletCall(bullet_text, match_analysis) ==
  /\ ret' = [op |-> "analyze_bullet", bullet |-> bullet_text,
             match_analysis |-> match_analysis,
             analysis |-> AnalyzeBullet(index, metadata, tieOrder, jd_embedding,
                                        jd_keywords, thresholds, bullet_text,
                                        match_analysis)]
  /\ UNCHANGED <<index, metadata, tieOrder, jd_embedding, jd_keywords,
                 thresholds, targets, dIn, dOut,
                 persistVars, threads>>

\* most bullets handed to one analyze_all_bullets
MaxBullets == 2

\* every list of 0 .. n bullet texts
RECURSIVE BulletLists(_)
BulletLists(n) ==
  IF n = 0 THEN {<<>>}
  ELSE LET shorter == BulletLists(n - 1)
       IN shorter \cup { Append(l, t) : l \in { x \in shorter : Len(x) = n - 1 },
                                         t \in {TxtSql, TxtGoSql} }

\* the bullet lists analyze_all_bullets is called with
BulletBatches == BulletLists(MaxBullets)

\* the hints analyze_all_bullets is called with: none, and a matched skill
BatchHints == { h \in HintSets : h.recommendations = <<>> }

\* mutation: each analysis is put in front of the earlier ones
RECURSIVE AnalyzeAllBulletsInFront(_, _, _, _, _, _, _, _)
AnalyzeAllBulletsInFront(ix, meta, tie, jdEmb, jdKw, th, bullets, match_analysis) ==
  IF bullets = <<>> THEN <<>>
  ELSE AnalyzeAllBulletsInFront(ix, meta, tie, jdEmb, jdKw, th, Tail(bullets), match_analysis)
         \o <<AnalyzeBullet(ix, meta, tie, jdEmb, jdKw, th, Head(bullets), match_analysis)>>

\* analyze_all_bullets: the loop appends the analysis of each bullet in turn
RECURSIVE AnalyzeAllBullets(_, _, _, _, _, _, _, _)
AnalyzeAllBullets(ix, meta, tie, jdEmb, jdKw, th, bullets, match_analysis) ==
  IF bullets = <<>> THEN <<>>
  ELSE <<AnalyzeBullet(ix, meta, tie, jdEmb, jdKw, th, Head(bullets), match_analysis)>>
         \o AnalyzeAllBullets(ix, meta, tie, jdEmb, jdKw, th, Tail(bullets), match_analysis)

\* a call of analyze_all_bullets(bullets, None, match_analysis)
AnalyzeAllBulletsCall(bullets, match_analysis) ==
  /\ ret' = [op |-> "analyze_all_bullets", bullets |-> bullets,
             match_analysis |-> match_analysis,
             analyses |-> AnalyzeAllBullets(index, metadata, tieOrder,
                                            jd_embedding, jd_keywords,
                                            thresholds, bullets, match_analysis)]
  /\ UNCHANGED <<index, metadata, tieOrder, jd_embedding, jd_keywords,
                 thresholds, targets, dIn, dOut, persistVars, threads>>

(***************************************************************************)
(* _make_decision on its own, over sampled inputs.                         *)
(***************************************************************************)
\* scores in [0, 1]: the grid, and the values the thresholds turn on
ScoreInputs ==
  { (i * Scale) \div Grid : i \in 0..Grid }
    \cup { Pct(40), Pct(50), Pct(75), Pct(90), (Pct(75) * 9) \div 10 }

DecideThresholds ==
  { [similarity_threshold |-> Pct(DefaultSimilarityThreshold),
     rewrite_threshold |-> Pct(r), keep_threshold |-> Pct(k)] :
      r \in {4, DefaultRewriteThreshold, 80},
      k \in {0, 50, DefaultKeepThreshold, 100} }

DecideInputs ==
  [jd_similarity : ScoreInputs, has_evidence : BOOLEAN,
   keyword_score : ScoreInputs, profile_alignment : {0, Pct(70), Pct(80)},
   should_emphasize : BOOLEAN, should_add : BOOLEAN, th : DecideThresholds]

NoDecideInput ==
  [jd_similarity |-> 0, has_evidence |-> FALSE, keyword_score |-> 0,
   profile_alignment |-> 0, should_emphasize |-> FALSE, should_add |-> FALSE,
   th |-> DefaultThresholds]

NotDecided == [decision |-> "none", flipped_add |-> "none"]

\* _make_decision applied to the inputs d
DecisionFor(d) ==
  MakeDecision(d.jd_similarity, d.has_evidence, d.keyword_score,
               d.profile_alignment, d.should_emphasize, d.should_add, d.th)

\* the call on dIn, and the same call with only should_add changed
Decide ==
  /\ dOut = NotDecided
  /\ dOut' = [decision |-> DecisionFor(dIn),
              flipped_add |->
                DecisionFor([dIn EXCEPT !.should_add = ~dIn.should_add])]
  /\ UNCHANGED <<index, metadata, tieOrder, jd_embedding, jd_keywords,
                 thresholds, ret, targets, dIn,
                 persistVars, threads>>

\* the call on dIn with should_emphasize set, and the same call with it
\* cleared
DecideEmphasis ==
  /\ dOut = NotDecided
  /\ dOut' = [with_emphasis |->
                DecisionFor([dIn EXCEPT !.should_emphasize = TRUE]),
              without_emphasis |->
                DecisionFor([dIn EXCEPT !.should_emphasize = FALSE])]
  /\ UNCHANGED <<index, metadata, tieOrder, jd_embedding, jd_keywords,
                 thresholds, ret, targets, dIn, persistVars, threads>>

(***************************************************************************)
(* calculate_role_match_score on its own.  The score is kept in hundredths *)
(* of a point, which is what round(x, 2) leaves of it; the rounding is     *)
(* done on the exact quotient, the error of the floating-point sums is not *)
(* represented.                                                            *)
(***************************************************************************)
\* most analyses handed to one calculate_role_match_score
MaxAnalyses == 3

\* mutation: a decision the table does not name weighs 1.0
DecisionWeight10UnknownOne(decision) ==
  CASE decision = "KEEP" -> 10
    [] decision = "REWRITE" -> 6
    [] decision = "DE_EMPHASIZE" -> 2
    [] OTHER -> 10

\* 10 * decision_weights.get(decision, 0.5)
DecisionWeight10(decision) ==
  CASE decision = "KEEP" -> 10
    [] decision = "REWRITE" -> 6
    [] decision = "DE_EMPHASIZE" -> 2
    [] OTHER -> 5

\* 10 * bullet_score, in units of 1/Scale
BulletScore10(analysis) ==
  analysis.jd_similarity * 5 + analysis.keyword_score * 3
    + (IF analysis.has_evidence THEN Pct(80) ELSE Pct(20)) * 2

\* 100 * total_score, in units of 1/Scale
RECURSIVE TotalScore100(_)
TotalScore100(analyses) ==
  IF analyses = <<>> THEN 0
  ELSE BulletScore10(Head(analyses)) * DecisionWeight10(Head(analyses).decision)
         + TotalScore100(Tail(analyses))

\* 10 * total_weight
RECURSIVE TotalWeight10(_)
TotalWeight10(analyses) ==
  IF analyses = <<>> THEN 0
  ELSE DecisionWeight10(Head(analyses).decision) + TotalWeight10(Tail(analyses))

\* round(average_score * 100, 2), in hundredths, where num / den is the exact
\* quotient in hundredths: the nearest hundredth.  total_score, average_score
\* and the product are binary floats, each rounded as it is computed, so when
\* the exact quotient lies halfway between two hundredths the float that is
\* rounded lies on it, just below it or just above it: round returns either
\* neighbour, and the fixed-point signals do not tell which.
Round2(num, den) ==
  LET q == num \div den
      r == num % den
  IN IF 2 * r > den THEN {q + 1}
     ELSE IF 2 * r = den THEN {q, q + 1}
     ELSE {q}

\* mutation: the total is not divided by the total weight
CalculateRoleMatchScoreOfTotal(analyses) ==
  IF analyses = <<>> THEN {0}
  ELSE IF TotalWeight10(analyses) = 0 THEN {0}
       ELSE Round2(100 * TotalScore100(analyses), Scale)

\* calculate_role_match_score(analyses), in hundredths of a point: the
\* values the call can return (one, or two at a tie of the rounding)
CalculateRoleMatchScore(analyses) ==
  IF analyses = <<>> THEN {0}
  ELSE IF TotalWeight10(analyses) = 0 THEN {0}
       ELSE Round2(1000 * TotalScore100(analyses),
                   Scale * TotalWeight10(analyses))

\* the analyses the score is computed for: every decision, one that is none
\* of the three included, with and without evidence, over two sets of signals
AnalysisInputs ==
  { [decision |-> dec, has_evidence |-> ev, jd_similarity |-> sig[1],
     keyword_score |-> sig[2], profile_alignment |-> sig[3]] :
      dec \in {"KEEP", "REWRITE", "DE_EMPHASIZE", "ADD"},
      ev \in BOOLEAN,
      sig \in { <<Pct(90), Scale, 0>>, <<Pct(33), Pct(50), Pct(80)>> } }

\* every list of 0 .. n analyses
RECURSIVE AnalysisLists(_)
AnalysisLists(n) ==
  IF n = 0 THEN {<<>>}
  ELSE LET shorter == AnalysisLists(n - 1)
       IN shorter \cup { Append(l, a) : l \in { x \in shorter : Len(x) = n - 1 },
                                         a \in AnalysisInputs }

NotScored == [score |-> -1]

\* the call on dIn
RoleMatchScore ==
  /\ dOut = NotScored
  /\ \E score \in CalculateRoleMatchScore(dIn) : dOut' = [score |-> score]
  /\ UNCHANGED <<index, metadata, tieOrder, jd_embedding, jd_keywords,
                 thresholds, ret, targets, dIn, persistVars, threads>>

\* a call of calculate_role_match_score on the analyses that the last
\* analyze_all_bullets returned (main.py line 340)
ScoreAnalyses ==
  /\ ret.op = "analyze_all_bullets"
  /\ \E score \in CalculateRoleMatchScore(ret.analyses) :
       ret' = [op |-> "calculate_role_match_score",
               analyses |-> ret.analyses, score |-> score]
  /\ UNCHANGED <<index, metadata, tieOrder, jd_embedding, jd_keywords,
                 thresholds, targets, dIn, dOut, persistVars, threads>>

(***************************************************************************)
(* Step 5 of analyze_bullet on its own, over hints built from lists of     *)
(* matched skills and of recommendations.                                  *)
(***************************************************************************)
\* most recommendations in one match_analysis
MaxRecs == 2

\* match_analysis["skill_matches"], in the order its items are visited
SkillLists == {<<>>, <<SkGo>>, <<SkSql>>, <<SkMl, SkApi>>, <<SkApi, SkGo>>}

\* one recommendation: an action, and a topic that may be empty
RecInputs ==
  [action : {"EMPHASIZE", "ADD", "REWRITE"}, skill_or_topic : {SkGo, SkSql, <<>>}]

\* every list of 0 .. n recommendations
RECURSIVE RecLists(_)
RecLists(n) ==
  IF n = 0 THEN {<<>>}
  ELSE LET shorter == RecLists(n - 1)
       IN shorter \cup { Append(l, r) : l \in { x \in shorter : Len(x) = n - 1 },
                                         r \in RecInputs }

\* the hints step 5 is run with: none, and every pairing of the lists
HintInputs ==
  {NoHints} \cup
    { [given |-> TRUE, skill_matches |-> sk, recommendations |-> recs] :
        sk \in SkillLists, recs \in RecLists(MaxRecs) }

NoSignals == [profile_alignment |-> -1]

\* step 5 run on dIn
Signals ==
  /\ dOut = NoSignals
  /\ dOut' = ProfileSignals(dIn.match_analysis, dIn.bullet_text)
  /\ UNCHANGED <<index, metadata, tieOrder, jd_embedding, jd_keywords,
                 thresholds, ret, targets, dIn, persistVars, threads>>

(***************************************************************************)
(* search and analyze_bullet called from threads at the same time.  A step *)
(* of a thread is a run of statements that reads the store's or the        *)
(* engine's fields at most at its start; what a call has computed so far   *)
(* is in its local variables.                                              *)
(***************************************************************************)
\* thread u is inside a call that has not yet computed its result
InCall(u) == threads[u].pc \notin {"idle", "done"}

\* no thread is inside a call or about to return from one
AllIdle == \A u \in ThreadIds : threads[u].pc = "idle"

\* thread t moves on to the locals rec; history: a call during which
\* another thread took a step of its own call is marked as mixed
Advance(t, rec) ==
  [u \in ThreadIds |->
     IF u = t
       THEN [rec EXCEPT !.mixed = threads[t].mixed
                                    \/ \E v \in ThreadIds \ {t} : InCall(v)]
       ELSE [threads[u] EXCEPT !.mixed = threads[u].mixed \/ InCall(u)]]

\* mutation: the query embedding is kept in a field of the store, which
\* every thread reads
WithQueryShared(th, t, q) == [u \in DOMAIN th |-> [th[u] EXCEPT !.q = q]]

\* query_embedding = self.model.encode([query]): a local of the call
WithQuery(th, t, q) == [th EXCEPT ![t].q = q]

\* thread t calls search(query, k)
StartSearch(t, query, k) ==
  /\ threads[t].pc = "idle"
  /\ threads' = Advance(t, [IdleThread EXCEPT !.pc = "check", !.op = "search",
                                              !.text = query, !.k = k])
  /\ UNCHANGED <<index, metadata, tieOrder, jd_embedding, jd_keywords,
                 thresholds, ret, targets, dIn, dOut, persistVars>>

\* thread t calls analyze_bullet({"text": bullet_text}, None, match_analysis)
StartAnalyze(t, bullet_text, match_analysis) ==
  /\ threads[t].pc = "idle"
  /\ threads' = Advance(t, [IdleThread EXCEPT !.pc = "sim",
                                              !.op = "analyze_bullet",
                                              !.text = bullet_text, !.k = 5,
                                              !.match_analysis = match_analysis])
  /\ UNCHANGED <<index, metadata, tieOrder, jd_embedding, jd_keywords,
                 thresholds, ret, targets, dIn, dOut, persistVars>>

\* analyze_bullet line 46: _calculate_jd_similarity reads self.jd_embedding
SimStep(t) ==
  /\ threads[t].pc = "sim"
  /\ threads' = Advance(t, [threads[t] EXCEPT
                              !.pc = "check",
                              !.sim = CalculateJdSimilarity(jd_embedding,
                                                            threads[t].text)])
  /\ UNCHANGED <<index, metadata, tieOrder, jd_embedding, jd_keywords,
                 thresholds, ret, targets, dIn, dOut, persistVars>>

\* what the call of thread t goes on with when its search has the results:
\* search returns them, analyze_bullet filters them (get_relevant_entries)
AfterSearch(t, results) ==
  IF threads[t].op = "search"
    THEN [threads[t] EXCEPT !.pc = "done", !.result = results]
    ELSE [threads[t] EXCEPT
            !.pc = "kw",
            !.relevant = AboveThreshold(results,
                                        thresholds.similarity_threshold)]

\* search line 74: no index, or an empty one, returns []
CheckStep(t) ==
  /\ threads[t].pc = "check"
  /\ threads' = Advance(t, IF ~index.built \/ NTotal(index) = 0
                             THEN AfterSearch(t, <<>>)
                             ELSE [threads[t] EXCEPT !.pc = "encode"])
  /\ UNCHANGED <<index, metadata, tieOrder, jd_embedding, jd_keywords,
                 thresholds, ret, targets, dIn, dOut, persistVars>>

\* search lines 78-79: the query is encoded and normalised
EncodeStep(t) ==
  /\ threads[t].pc = "encode"
  /\ threads' = WithQuery(Advance(t, [threads[t] EXCEPT !.pc = "hits"]), t,
                          UnitEmbedding[threads[t].text])
  /\ UNCHANGED <<index, metadata, tieOrder, jd_embedding, jd_keywords,
                 thresholds, ret, targets, dIn, dOut, persistVars>>

\* search lines 82-86: k is clamped to ntotal and the index is searched
HitsStep(t) ==
  /\ threads[t].pc = "hits"
  /\ LET search_k == SearchK(threads[t].k, NTotal(index))
     IN threads' = Advance(t, IF search_k = 0
                                THEN AfterSearch(t, <<>>)
                                ELSE [threads[t] EXCEPT
                                        !.pc = "select",
                                        !.hits = FlatIPSearch(index.xb,
                                                              threads[t].q,
                                                              search_k,
                                                              tieOrder)])
  /\ UNCHANGED <<index, metadata, tieOrder, jd_embedding, jd_keywords,
                 thresholds, ret, targets, dIn, dOut, persistVars>>

\* search lines 88-93: the hits are paired with self.metadata
SelectStep(t) ==
  /\ threads[t].pc = "select"
  /\ threads' = Advance(t, AfterSearch(t, SelectHits(threads[t].hits, metadata)))
  /\ UNCHANGED <<index, metadata, tieOrder, jd_embedding, jd_keywords,
                 thresholds, ret, targets, dIn, dOut, persistVars>>

\* analyze_bullet line 59: _calculate_keyword_overlap reads self.jd_keywords
KeywordStep(t) ==
  /\ threads[t].pc = "kw"
  /\ threads' = Advance(t, [threads[t] EXCEPT
                              !.pc = "decide",
                              !.kw = CalculateKeywordOverlap(jd_keywords,
                                                             threads[t].text)])
  /\ UNCHANGED <<index, metadata, tieOrder, jd_embedding, jd_keywords,
                 thresholds, ret, targets, dIn, dOut, persistVars>>

\* analyze_bullet lines 62-103 on the locals l: the hints, the decision
\* (which reads the thresholds) and the analysis returned
AnalysisOf(l, th) ==
  LET sig == HintSignals[l.match_analysis, l.text]
      has_evidence == Len(l.relevant) > 0
      decision == MakeDecision(l.sim, has_evidence, l.kw,
                               sig.profile_alignment, sig.should_emphasize,
                               sig.should_add, th)
  IN [bullet |-> l.text,
      jd_similarity |-> l.sim,
      has_evidence |-> has_evidence,
      relevant_entries |-> FirstThree(l.relevant),
      keyword_score |-> l.kw,
      profile_alignment |-> sig.profile_alignment,
      should_emphasize |-> sig.should_emphasize,
      decision |-> decision,
      reasoning |-> GenerateReasoning(l.sim, has_evidence, l.kw, decision,
                                      sig.profile_alignment)]

DecideStep(t) ==
  /\ threads[t].pc = "decide"
  /\ threads' = Advance(t, [threads[t] EXCEPT
                              !.pc = "done",
                              !.result = AnalysisOf(threads[t], thresholds)])
  /\ UNCHANGED <<index, metadata, tieOrder, jd_embedding, jd_keywords,
                 thresholds, ret, targets, dIn, dOut, persistVars>>

\* the call of thread t returns its result
Return(t) ==
  /\ threads[t].pc = "done"
  /\ threads' = [threads EXCEPT ![t] = IdleThread]
  /\ UNCHANGED <<index, metadata, tieOrder, jd_embedding, jd_keywords,
                 thresholds, ret, targets, dIn, dOut, persistVars>>

(***************************************************************************)
(* Specifications.                                                         *)
(***************************************************************************)
\* a store and an engine, as constructed
Init ==
  /\ index = NoIndex
  /\ metadata = <<>>
  /\ tieOrder \in {"asc", "desc"}
  /\ jd_embedding = NoVector
  /\ jd_keywords = EmptyText
  /\ thresholds \in EngineThresholds
  /\ ret = NoCall
  /\ targets = <<>>
  /\ dIn = NoDecideInput
  /\ dOut = NotDecided
  /\ PersistInit
  /\ threads = NoThreads

\* the store's mutating operations
StoreNext ==
  \/ \E texts \in Batches : CreateEmbeddings(texts)
  \/ \E texts \in Batches : BuildIndex(RowsOf(texts), texts)
  \/ \E texts \in Batches : AddToIndex(EncodeAll(texts), texts)

\* an engine over its store: the store is filled, targets are set, bullets
\* are analysed
Next ==
  \/ StoreNext
  \/ \E text \in JobTexts : SetJobDescription(text)
  \/ \E bullet_text \in BulletTexts, match_analysis \in HintSets :
       AnalyzeBulletCall(bullet_text, match_analysis)

Spec == Init /\ [][Next]_vars

\* the store on its own: it is filled, with rows of either length, and
\* searched
StoreInit ==
  /\ index = NoIndex
  /\ metadata = <<>>
  /\ tieOrder \in {"asc", "desc"}
  /\ jd_embedding = NoVector
  /\ jd_keywords = EmptyText
  /\ thresholds = DefaultThresholds
  /\ ret = NoCall
  /\ targets = <<>>
  /\ dIn = NoDecideInput
  /\ dOut = NotDecided
  /\ PersistInit
  /\ threads = NoThreads

\* build_index and add_to_index called with rows that are not of the
\* provider's length
MismatchNext ==
  \/ \E texts \in Batches : BuildIndex(MismatchedRows(texts), texts)
  \/ \E texts \in Batches : AddToIndex(MismatchedRows(texts), texts)

SearchNext ==
  \/ StoreNext
  \/ MismatchNext
  \/ \E query \in QueryTexts, k \in 0..MaxK : SearchCall(query, k)
  \/ \E query \in QueryTexts, threshold \in ThresholdInputs, top_k \in 0..MaxK :
       GetRelevantEntriesCall(query, threshold, top_k)

SpecStore == StoreInit /\ [][SearchNext]_vars

\* _make_decision on its own
DecideInit ==
  /\ index = NoIndex
  /\ metadata = <<>>
  /\ tieOrder = "asc"
  /\ jd_embedding = NoVector
  /\ jd_keywords = EmptyText
  /\ thresholds = DefaultThresholds
  /\ ret = NoCall
  /\ targets = <<>>
  /\ dIn \in DecideInputs
  /\ dOut = NotDecided
  /\ PersistInit
  /\ threads = NoThreads

DecideNext == Decide

SpecDecide == DecideInit /\ [][DecideNext]_vars

\* the store and its disk, used as main.py uses them: the index is built,
\* saved (to the end or not), and a store constructed anew loads it; the path
\* is empty at first or holds the store saved with the other model
PersistStoreInit ==
  /\ index = NoIndex
  /\ metadata = <<>>
  /\ tieOrder = "asc"
  /\ jd_embedding = NoVector
  /\ jd_keywords = EmptyText
  /\ thresholds = DefaultThresholds
  /\ ret = NoCall
  /\ targets = <<>>
  /\ dIn = NoDecideInput
  /\ dOut = NotDecided
  /\ dimension = EncoderDimension
  /\ model_name = DefaultModelName
  /\ disk \in {NoDisk, OtherDisk}
  /\ saves = 0
  /\ lastSave = NoSave
  /\ threads = NoThreads

PersistNext ==
  \/ \E texts \in Batches : BuildIndex(RowsOf(texts), texts)
  \/ Save
  \/ \E n \in 1..2 : SaveInterrupted(n)
  \/ NewStore
  \/ Load

SpecPersist == PersistStoreInit /\ [][PersistNext]_vars

\* an engine with the default thresholds over a store that build_index
\* fills, analysing lists of bullets
BatchNext ==
  \/ \E texts \in Batches : BuildIndex(RowsOf(texts), texts)
  \/ \E text \in JobTexts : SetJobDescription(text)
  \/ \E bullets \in BulletBatches, match_analysis \in BatchHints :
       AnalyzeAllBulletsCall(bullets, match_analysis)

SpecBatch == StoreInit /\ [][BatchNext]_vars

\* calculate_role_match_score on its own
ScoreInit ==
  /\ index = NoIndex
  /\ metadata = <<>>
  /\ tieOrder = "asc"
  /\ jd_embedding = NoVector
  /\ jd_keywords = EmptyText
  /\ thresholds = DefaultThresholds
  /\ ret = NoCall
  /\ targets = <<>>
  /\ dIn \in AnalysisLists(MaxAnalyses)
  /\ dOut = NotScored
  /\ PersistInit
  /\ threads = NoThreads

ScoreNext == RoleMatchScore

SpecScore == ScoreInit /\ [][ScoreNext]_vars

\* an engine over a store that build_index fills: lists of bullets are
\* analysed and the analyses are scored
RoleNext ==
  \/ BatchNext
  \/ ScoreAnalyses

SpecRole == StoreInit /\ [][RoleNext]_vars

\* step 5 of analyze_bullet on its own
HintsInit ==
  /\ index = NoIndex
  /\ metadata = <<>>
  /\ tieOrder = "asc"
  /\ jd_embedding = NoVector
  /\ jd_keywords = EmptyText
  /\ thresholds = DefaultThresholds
  /\ ret = NoCall
  /\ targets = <<>>
  /\ dIn \in [match_analysis : HintInputs, bullet_text : BulletTexts]
  /\ dOut = NoSignals
  /\ PersistInit
  /\ threads = NoThreads

HintsNext == Signals

SpecHints == HintsInit /\ [][HintsNext]_vars

\* every operation of the store and of the engine on one store and one
\* engine: the calls that fill the store, set the target, save and load,
\* and the calls that search, analyse and score
FrameNext ==
  \/ CreateEmbeddings(<<TxtGoSql>>)
  \/ \E texts \in {<<TxtGoSql>>, <<TxtSql>>} : BuildIndex(RowsOf(texts), texts)
  \/ AddToIndex(EncodeAll(<<TxtGoSql>>), <<TxtGoSql>>)
  \/ \E text \in JobTexts : SetJobDescription(text)
  \/ Save
  \/ Load
  \/ SearchCall(TxtSql, MaxK)
  \/ GetRelevantEntriesCall(TxtSql, Pct(60), MaxK)
  \/ AnalyzeBulletCall(TxtSql, NoHints)
  \/ AnalyzeAllBulletsCall(<<TxtSql, TxtGoSql>>, NoHints)
  \/ ScoreAnalyses

SpecFrame == StoreInit /\ [][FrameNext]_vars

\* threads searching and analysing at the same time; the index is built and
\* the target is set only while no call is in progress
ThreadsNext ==
  \/ AllIdle /\ \E texts \in {<<TxtSql>>, <<TxtGoApi, TxtGoSql>>} :
                   BuildIndex(RowsOf(texts), texts)
  \/ AllIdle /\ SetJobDescription(TxtGoSql)
  \/ \E t \in ThreadIds, query \in {TxtSql, TxtGoApi}, k \in {1, 2} :
       StartSearch(t, query, k)
  \/ \E t \in ThreadIds, bullet_text \in {TxtSql, TxtGoSql},
        match_analysis \in { h \in HintSets : h.recommendations = <<>> } :
       StartAnalyze(t, bullet_text, match_analysis)
  \/ \E t \in ThreadIds : SimStep(t)
  \/ \E t \in ThreadIds : CheckStep(t)
  \/ \E t \in ThreadIds : EncodeStep(t)
  \/ \E t \in ThreadIds : HitsStep(t)
  \/ \E t \in ThreadIds : SelectStep(t)
  \/ \E t \in ThreadIds : KeywordStep(t)
  \/ \E t \in ThreadIds : DecideStep(t)
  \/ \E t \in ThreadIds : Return(t)

SpecThreads == StoreInit /\ [][ThreadsNext]_vars

\* an engine whose target may point away from a bullet (a negative inner
\* product), over a store that build_index fills
RangeNext ==
  \/ \E texts \in {<<>>, <<TxtSql>>, <<TxtGoApi, TxtMl>>} :
       BuildIndex(RowsOf(texts), texts)
  \/ \E text \in {TxtMl, TxtGoSql, TxtBlank} : SetJobDescription(text)
  \/ \E bullet_text \in BulletTexts, match_analysis \in HintSets :
       AnalyzeBulletCall(bullet_text, match_analysis)

SpecRange == StoreInit /\ [][RangeNext]_vars

\* the orchestrator's step over runs of the program: an index is built, a
\* save is cut short, a new run constructs its store and runs the step
Step2Next ==
  \/ \E texts \in Batches : BuildIndex(RowsOf(texts), texts)
  \/ \E n \in 1..2 : SaveInterrupted(n)
  \/ NewStore
  \/ \E bullets \in ProfileBullets : Step2CreateEmbeddingStore(bullets)

SpecStep2 == PersistStoreInit /\ [][Step2Next]_vars

\* _make_decision on its own, with and without emphasis
EmphasisNext == DecideEmphasis

SpecEmphasis == DecideInit /\ [][EmphasisNext]_vars

\* an engine whose embedding provider may raise while a target is set
TargetNext ==
  \/ \E texts \in Batches : BuildIndex(RowsOf(texts), texts)
  \/ \E text \in JobTexts : SetJobDescription(text)
  \/ \E text \in JobTexts : SetJobDescriptionRaises(text)
  \/ \E bullet_text \in BulletTexts : AnalyzeBulletCall(bullet_text, NoHints)

SpecTarget == StoreInit /\ [][TargetNext]_vars

(***************************************************************************)
(* The documented decision policy, written from its rules (a)-(d).         *)
(***************************************************************************)
\* 100 * (0.4*similarity + 0.25*overlap + 0.2*(0.8 or 0.2) + 0.15*alignment)
PolicyCombined100(d) ==
  40 * d.jd_similarity + 25 * d.keyword_score
    + 20 * (IF d.has_evidence THEN Pct(80) ELSE Pct(20))
    + 15 * d.profile_alignment

\* rules (b), (c), (d): the plain combined-score rules
PolicyByScore(d) ==
  CASE PolicyCombined100(d) >= 100 * d.th.keep_threshold
         /\ d.jd_similarity >= d.th.keep_threshold -> "KEEP"
    [] ~(PolicyCombined100(d) >= 100 * d.th.keep_threshold
           /\ d.jd_similarity >= d.th.keep_threshold)
         /\ PolicyCombined100(d) >= 100 * d.th.rewrite_threshold -> "REWRITE"
    [] OTHER -> "DE_EMPHASIZE"

\* rule (a) first, then (b)-(d)
PolicyDecision(d) ==
  IF d.should_emphasize /\ d.has_evidence
    THEN (IF 10 * d.jd_similarity >= 9 * d.th.keep_threshold
            THEN "KEEP" ELSE "REWRITE")
    ELSE PolicyByScore(d)

Decided == dOut # NotDecided

\* the signals of an analysis, as inputs of the policy
SignalsOf(a, th) ==
  [jd_similarity |-> a.jd_similarity, has_evidence |-> a.has_evidence,
   keyword_score |-> a.keyword_score, profile_alignment |-> a.profile_alignment,
   should_emphasize |-> a.should_emphasize, th |-> th]

Analyzed == ret.op = "analyze_bullet"

(***************************************************************************)
(* Claims.                                                                 *)
(***************************************************************************)
\* C1: for every combination of the signals, the flags and the thresholds,
\* the decision _make_decision returns is the one the first matching rule of
\* the ordered policy (a)-(d) gives.
C1_DecisionFollowsPolicy ==
  Decided => dOut.decision = PolicyDecision(dIn)

\* C1 witness: a decision taken by rule (b) at the boundary, the similarity
\* exactly at a non-zero keep threshold, with should_add set.
C1_Witness ==
  /\ Decided
  /\ ~dIn.should_emphasize
  /\ dIn.should_add
  /\ dIn.th.keep_threshold > 0
  /\ dIn.jd_similarity = dIn.th.keep_threshold
  /\ dOut.decision = "KEEP"

\* C2: every analysis analyze_bullet returns, after any sequence of store
\* updates, set_job_description and analyze_bullet calls and for any hints
\* (recommendations with action ADD included), carries one of KEEP, REWRITE,
\* DE_EMPHASIZE; ADD is never the decision.
C2_DecisionClosed ==
  Analyzed => ret.analysis.decision \in {"KEEP", "REWRITE", "DE_EMPHASIZE"}

\* C2 witness: an analysis whose hints recommend ADD for a topic the bullet
\* mentions, with no evidence in the profile.
C2_Witness ==
  /\ Analyzed
  /\ ret.match_analysis.given
  /\ RecsMentioned(ret.match_analysis, ret.bullet, "ADD") # {}
  /\ ~ret.analysis.has_evidence

\* C3: two calls of _make_decision that differ only in should_add return the
\* same decision.
C3_ShouldAddIgnored ==
  Decided => dOut.decision = dOut.flipped_add

\* C3 witness: the call with should_add set and no evidence, the one case the
\* code singles out for should_add.
C3_Witness ==
  /\ Decided
  /\ dIn.should_add
  /\ ~dIn.has_evidence
  /\ dOut.decision = "DE_EMPHASIZE"

\* C4: whenever the bullet mentions a matched skill and the profile holds
\* evidence for it, the decision is KEEP or REWRITE, whatever the combined
\* score.
C4_EmphasisOverride ==
  (/\ Analyzed
   /\ ret.match_analysis.given
   /\ SkillMentioned(ret.match_analysis, ret.bullet)
   /\ ret.analysis.has_evidence)
    => ret.analysis.decision \in {"KEEP", "REWRITE"}

\* C4 witness: such an analysis for which the combined-score rules (b)-(d)
\* alone select DE_EMPHASIZE and the decision returned is REWRITE.
C4_Witness ==
  /\ Analyzed
  /\ ret.match_analysis.given
  /\ SkillMentioned(ret.match_analysis, ret.bullet)
  /\ ret.analysis.has_evidence
  /\ PolicyByScore(SignalsOf(ret.analysis, thresholds)) = "DE_EMPHASIZE"
  /\ ret.analysis.decision = "REWRITE"

\* the two candidates of C5: thresholds 0.75 / 0.4, full lexical overlap,
\* evidence, no hints, similarity sim (in hundredths)
C5_Candidate(sim) ==
  /\ dIn.th.keep_threshold = Pct(75)
  /\ dIn.th.rewrite_threshold = Pct(40)
  /\ dIn.jd_similarity = Pct(sim)
  /\ dIn.keyword_score = Scale
  /\ dIn.has_evidence
  /\ dIn.profile_alignment = 0
  /\ ~dIn.should_emphasize
  /\ ~dIn.should_add

\* C5: with keep 0.75 and rewrite 0.4, the candidate with similarity 0.9,
\* full overlap, evidence and no hints is KEEP; with similarity 0.5 instead it
\* is not KEEP, and is REWRITE exactly when its combined score is >= 0.4,
\* else DE_EMPHASIZE.
C5_BoundaryCandidates ==
  /\ (Decided /\ C5_Candidate(90)) => dOut.decision = "KEEP"
  /\ (Decided /\ C5_Candidate(50)) =>
       /\ dOut.decision # "KEEP"
       /\ (dOut.decision = "REWRITE") <=> (PolicyCombined100(dIn) >= 100 * Pct(40))
       /\ (dOut.decision = "DE_EMPHASIZE") <=> (PolicyCombined100(dIn) < 100 * Pct(40))

\* C5 witness: the similarity-0.5 candidate has been decided.
C5_Witness ==
  /\ Decided
  /\ C5_Candidate(50)
  /\ dOut.decision = "REWRITE"

\* no row of the index reaches the similarity threshold for text t
NoEvidenceInIndex(t) ==
  \A i \in 1..NTotal(index) :
    Score(UnitEmbedding[t], index.xb[i]) < thresholds.similarity_threshold

\* an analysis with no target set, no evidence in the index, no hints
BareAnalysis ==
  /\ Analyzed
  /\ targets = <<>>
  /\ ~ret.match_analysis.given
  /\ NoEvidenceInIndex(ret.bullet)

\* C6 as stated: with no target set, no evidence in the index (an empty or
\* never-built index included) and no hints, the analysis has similarity 0.0,
\* overlap 0.0, no evidence, and the decision DE_EMPHASIZE.
C6_BareIsDeEmphasize ==
  BareAnalysis =>
    /\ ret.analysis.jd_similarity = 0
    /\ ret.analysis.keyword_score = 0
    /\ ~ret.analysis.has_evidence
    /\ ret.analysis.decision = "DE_EMPHASIZE"

\* C6 as amended: with no target set, no evidence in the index and no hints,
\* the analysis has similarity 0.0, overlap 0.0 and no evidence, and its
\* decision is DE_EMPHASIZE exactly when the engine's rewrite_threshold is
\* above the no-evidence floor 0.04 and its keep_threshold is above 0 (as the
\* defaults 0.4 and 0.75 are); otherwise it is REWRITE or KEEP.
C6_BareDecision ==
  BareAnalysis =>
    /\ ret.analysis.jd_similarity = 0
    /\ ret.analysis.keyword_score = 0
    /\ ~ret.analysis.has_evidence
    /\ ret.analysis.decision \in {"KEEP", "REWRITE", "DE_EMPHASIZE"}
    /\ (ret.analysis.decision = "DE_EMPHASIZE")
         <=> (/\ thresholds.rewrite_threshold > Pct(4)
              /\ thresholds.keep_threshold > 0)

\* C6 witness: such an analysis over a populated index, none of whose rows
\* is evidence for the bullet, decided DE_EMPHASIZE.
C6_Witness ==
  /\ BareAnalysis
  /\ NTotal(index) >= 1
  /\ ret.analysis.decision = "DE_EMPHASIZE"

\* C7: an analysis made before the first set_job_description reports
\* description similarity 0.0; a non-zero similarity appears only after a
\* set_job_description.
C7_NoTargetNoSimilarity ==
  /\ (Analyzed /\ targets = <<>>) => ret.analysis.jd_similarity = 0
  /\ (Analyzed /\ ret.analysis.jd_similarity # 0) => targets # <<>>

\* C7 witness: an analysis before any target is set, of a bullet the index
\* holds evidence for.
C7_Witness ==
  /\ Analyzed
  /\ targets = <<>>
  /\ ret.analysis.has_evidence

\* C8: after set_job_description(A) followed by set_job_description(B) the
\* stored text and vector are those of B, and an analysis made then equals
\* the analysis of an engine that only ever received set_job_description(B).
C8_TargetReplaced ==
  Len(targets) = 2 =>
    LET only == SetTarget(EmptyText, NoVector, targets[2])
    IN /\ jd_keywords = targets[2]
       /\ jd_embedding = NormalizeL2(Encode(targets[2]))
       /\ jd_keywords = only.jd_keywords
       /\ jd_embedding = only.jd_embedding
       /\ Analyzed =>
            ret.analysis = AnalyzeBullet(index, metadata, tieOrder,
                                         only.jd_embedding, only.jd_keywords,
                                         thresholds, ret.bullet,
                                         ret.match_analysis)

\* C8 witness: an analysis after two different targets were set, with a
\* non-zero similarity and a non-zero overlap.
C8_Witness ==
  /\ Len(targets) = 2
  /\ targets[1] # targets[2]
  /\ Analyzed
  /\ ret.analysis.jd_similarity > 0
  /\ ret.analysis.keyword_score > 0

Searched == ret.op = "search"

\* the scores of the results never increase
NonIncreasing(results) ==
  \A i \in 1..(Len(results) - 1) : results[i].score >= results[i + 1].score

\* results with exactly equal scores are in ascending insertion position
TiesAscending(results, ids) ==
  \A i, j \in 1..Len(results) :
    (i < j /\ results[i].score = results[j].score) => ids[i] < ids[j]

\* C9 as stated: search returns scores in non-increasing order, entries with
\* exactly equal scores in ascending insertion position, and the same query
\* and k on the unmodified index return the same results.
C9_OrderedTiesAscending ==
  Searched =>
    /\ NonIncreasing(ret.results)
    /\ TiesAscending(ret.results, ret.ids)
    /\ Search(index, metadata, tieOrder, ret.query, ret.k) = ret.results

\* C9 as amended: search returns scores in non-increasing order, and the same
\* query and k on the unmodified index return the same results in the same
\* order; entries with exactly equal scores come in the order the FAISS index
\* returns them, which need not be ascending insertion position.
C9_Ordered ==
  Searched =>
    /\ NonIncreasing(ret.results)
    /\ Search(index, metadata, tieOrder, ret.query, ret.k) = ret.results

\* C9 witness: a search that returned two results of different scores.
C9_Witness ==
  /\ Searched
  /\ Len(ret.results) >= 2
  /\ ret.results[1].score > ret.results[2].score

\* C10: on an index that was never built or is empty search returns the
\* empty sequence, and on an index of n entries at most min(k, n) results,
\* for every k, k > n included.
C10_SearchSize ==
  Searched =>
    /\ (~index.built \/ NTotal(index) = 0) => ret.results = <<>>
    /\ Len(ret.results) <= Min2(ret.k, NTotal(index))

\* C10 witness: a search with k above the entry count of a populated index,
\* which returned every entry.
C10_Witness ==
  /\ Searched
  /\ NTotal(index) >= 1
  /\ ret.k > NTotal(index)
  /\ Len(ret.results) = NTotal(index)

GotRelevant == ret.op = "get_relevant_entries"

\* sub is what is left of seq (both paired with their rows) after dropping
\* some of its elements: same entries, same relative order
IsSubsequenceOf(sub, subIds, seq, seqIds) ==
  \E f \in [1..Len(sub) -> 1..Len(seq)] :
    /\ \A i, j \in 1..Len(sub) : i < j => f[i] < f[j]
    /\ \A i \in 1..Len(sub) : sub[i] = seq[f[i]].meta /\ subIds[i] = seqIds[f[i]]

\* the score of index row id (0-based) for the text query
RowScore(query, id) == Score(NormalizeL2(Encode(query)), index.xb[id + 1])

\* C11: every entry get_relevant_entries(q, t, top_k) returns has a score
\* >= t and is one of the entries search(q, top_k) returns, in the same
\* relative order; no entry outside that pool is returned, whatever its score.
C11_ThresholdContainment ==
  GotRelevant =>
    LET pool == Search(index, metadata, tieOrder, ret.query, ret.top_k)
        poolIds == KeptIds(SearchHits(index, tieOrder, ret.query, ret.top_k),
                           metadata)
    IN /\ Len(ret.relevant) = Len(ret.ids)
       /\ \A i \in 1..Len(ret.ids) : RowScore(ret.query, ret.ids[i]) >= ret.threshold
       /\ IsSubsequenceOf(ret.relevant, ret.ids, pool, poolIds)
       /\ Len(ret.relevant) <= ret.top_k

\* C11 witness: a call that returned an entry while a row of the index that
\* also reaches the threshold, ranked below the top_k pool, was left out.
C11_Witness ==
  /\ GotRelevant
  /\ Len(ret.relevant) >= 1
  /\ \E j \in 0..(NTotal(index) - 1) :
       /\ j < Len(metadata)
       /\ RowScore(ret.query, j) >= ret.threshold
       /\ \A i \in 1..Len(ret.ids) : ret.ids[i] # j

\* the dimension add_to_index checks the rows against: that of the index, or
\* the store's when it has no index yet
IndexDimension == IF index.built THEN index.d ELSE dimension

\* C12: add_to_index with rows whose length differs from the index dimension
\* fails, and the call leaves the index (whether there is one, its rows) and
\* the metadata list exactly as they were.
C12_FailedAddLeavesState ==
  [][(ret'.op = "add_to_index" /\ ret'.rows # IndexDimension)
       => /\ ret'.raised # "none"
          /\ index' = index
          /\ metadata' = metadata]_vars

\* over a step, every indexed entry keeps its position, its vector and its
\* metadata, and the entry count does not decrease
EntriesKept ==
  /\ NTotal(index') >= NTotal(index)
  /\ \A i \in 1..NTotal(index) :
       /\ index'.xb[i] = index.xb[i]
       /\ i <= Len(metadata) => (i <= Len(metadata') /\ metadata'[i] = metadata[i])

\* C13 as stated: over every create_embeddings, build_index and add_to_index
\* call the entry count never decreases and every indexed entry keeps its
\* position, vector and metadata.
C13_AppendOnly ==
  [][ret'.op \in {"create_embeddings", "build_index", "add_to_index"}
       => EntriesKept]_vars

\* C13 as amended: over every create_embeddings and add_to_index call the
\* entry count never decreases and every indexed entry keeps its position,
\* vector and metadata; build_index starts a new index, which holds the rows
\* of its batch and nothing of what was indexed before.
C13_AppendOnlyExceptBuild ==
  [][/\ ret'.op \in {"create_embeddings", "add_to_index"} => EntriesKept
     /\ (ret'.op = "build_index" /\ ret'.raised = "none")
          => /\ index'.xb = NormalizeRows(RowsOf(ret'.texts))
             /\ Len(metadata') = Len(ret'.texts)]_vars

\* C13 witness: an add_to_index that appended its rows after rows the index
\* already held.
C13_Witness ==
  /\ ret.op = "add_to_index"
  /\ ret.raised = "none"
  /\ NTotal(index) > Len(ret.texts)

\* the metadata entry m describes the index row id (0-based): the row is the
\* normalised embedding of the entry's text
Describes(m, id) == NormalizeL2(Encode(m.text)) = index.xb[id + 1]

\* a search one of whose hits came back with the metadata of another text
\* than the one whose vector matched
WrongHit ==
  /\ Searched
  /\ \E r \in 1..Len(ret.results) : ~Describes(ret.results[r].meta, ret.ids[r])

\* C14: in every reachable state the metadata list holds exactly one entry
\* per indexed vector and the i-th metadata entry describes the i-th vector,
\* so every hit of search carries the metadata of the vector that matched.
C14_MetadataAligned ==
  /\ Len(metadata) = NTotal(index)
  /\ \A i \in 1..NTotal(index) : Describes(metadata[i], i - 1)
  /\ ~WrongHit

Loaded == ret.op = "load" /\ ret.raised = "none"

\* the three files at the path are those of the last completed save
DiskIsLastSave ==
  /\ lastSave.gen > 0
  /\ disk.faiss.exists /\ disk.faiss.gen = lastSave.gen
  /\ disk.metadata.exists /\ disk.metadata.gen = lastSave.gen
  /\ disk.config.exists /\ disk.config.gen = lastSave.gen

\* a load of the files of the last completed save succeeds and leaves the
\* store with the dimension, entry count, vectors and metadata of the store
\* that was saved
RoundTrip ==
  (ret.op = "load" /\ DiskIsLastSave) =>
    /\ ret.raised = "none"
    /\ dimension = lastSave.dimension
    /\ index.d = lastSave.index.d
    /\ NTotal(index) = NTotal(lastSave.index)
    /\ index.xb = lastSave.index.xb
    /\ metadata = lastSave.metadata

\* a save call that ran to its end, with or without an exception
SaveReturned == ret.op = "save" /\ ret.raised # "interrupted"

\* C15 as stated: for the empty store as for a populated one, save succeeds,
\* and the load that follows succeeds and reproduces the dimension, entry
\* count, vectors and metadata.
C15_RoundTripAlways ==
  /\ SaveReturned => ret.raised = "none"
  /\ RoundTrip

\* C15 as amended: save succeeds exactly when the store has an index, with no
\* rows or with some (on the store as constructed, whose index was never
\* built, it raises ValueError); the load that follows a save that succeeded
\* succeeds and reproduces the dimension, entry count, vectors and metadata.
C15_RoundTripOfBuiltIndex ==
  /\ SaveReturned =>
       /\ (ret.raised = "none") <=> index.built
       /\ ~index.built => ret.raised = "ValueError"
       /\ index.built =>
            /\ DiskIsLastSave
            /\ lastSave.index = index
            /\ lastSave.metadata = metadata
            /\ lastSave.dimension = dimension
            /\ disk.config.content.size = NTotal(index)
  /\ RoundTrip

\* C15 witness: a load of the last completed save that reproduced a
\* populated index and its metadata.
C15_Witness ==
  /\ Loaded
  /\ DiskIsLastSave
  /\ NTotal(index) >= 1
  /\ Len(metadata) >= 1
  /\ index = lastSave.index

\* the three files of a store are at the path
StoreOnDisk == disk.faiss.exists /\ disk.metadata.exists /\ disk.config.exists

\* C16: load fails when there is no store at the path, and it fails, leaving
\* the store's dimension as it was, when the dimension the config file
\* records is not the one the store was configured with.
C16_LoadChecksDimension ==
  ret.op = "load" =>
    /\ ~disk.faiss.exists => ret.raised = "FileNotFoundError"
    /\ (StoreOnDisk /\ disk.config.content.dimension # ret.configured)
         => (ret.raised # "none" /\ dimension = ret.configured)

\* C17: a load that completes has found the entry count of the config file
\* equal to the number of vectors and to the number of metadata entries it
\* loaded.
C17_LoadVerifiesCounts ==
  Loaded =>
    /\ disk.config.content.size = NTotal(index)
    /\ disk.config.content.size = Len(metadata)

\* C18: a load that completes has read three files written by one and the
\* same save, also when a later save was interrupted between its writes.
C18_LoadAllOrNothing ==
  Loaded => (ret.gens[1] = ret.gens[2] /\ ret.gens[2] = ret.gens[3])

AnalyzedAll == ret.op = "analyze_all_bullets"

\* analyze_bullet on the engine and store as they are
AnalyzeAlone(bullet_text, match_analysis) ==
  AnalyzeBullet(index, metadata, tieOrder, jd_embedding, jd_keywords,
                thresholds, bullet_text, match_analysis)

\* analyze_all_bullets on the engine and store as they are
AnalyzeList(bullets, match_analysis) ==
  AnalyzeAllBullets(index, metadata, tieOrder, jd_embedding, jd_keywords,
                    thresholds, bullets, match_analysis)

Reverse(seq) == [i \in 1..Len(seq) |-> seq[Len(seq) + 1 - i]]

\* C19: analyze_all_bullets returns one analysis per bullet, in input order,
\* the i-th being what analyze_bullet returns for the i-th bullet alone with
\* the same hints; the same bullets in another order, or one of them on its
\* own, get the same analyses.
C19_BatchIsPointwise ==
  AnalyzedAll =>
    /\ Len(ret.analyses) = Len(ret.bullets)
    /\ \A i \in 1..Len(ret.bullets) :
         /\ ret.analyses[i].bullet = ret.bullets[i]
         /\ ret.analyses[i] = AnalyzeAlone(ret.bullets[i], ret.match_analysis)
         /\ AnalyzeList(<<ret.bullets[i]>>, ret.match_analysis)
              = <<ret.analyses[i]>>
    /\ AnalyzeList(Reverse(ret.bullets), ret.match_analysis)
         = Reverse(ret.analyses)

\* C19 witness: a list of two different bullets, with evidence in the index,
\* whose analyses carry different decisions.
C19_Witness ==
  /\ AnalyzedAll
  /\ Len(ret.bullets) = 2
  /\ ret.bullets[1] # ret.bullets[2]
  /\ ret.analyses[1].decision # ret.analyses[2].decision
  /\ ret.analyses[1].has_evidence

Scored == dOut # NotScored /\ dOut # NotDecided

\* the weights of the documented aggregate, times 10
ClaimedWeight10(a) ==
  IF a.decision = "KEEP" THEN 10
  ELSE IF a.decision = "REWRITE" THEN 6
  ELSE IF a.decision = "DE_EMPHASIZE" THEN 2
  ELSE 5

\* 10 * s_i of the documented aggregate, in units of 1/Scale:
\* 0.5 * similarity + 0.3 * overlap + 0.2 * (0.8 or 0.2)
ClaimedScore10(a) ==
  5 * a.jd_similarity + 3 * a.keyword_score
    + 2 * (IF a.has_evidence THEN Pct(80) ELSE Pct(20))

\* 10 * (sum of w_i) over the analyses from the i-th on
RECURSIVE SumOfWeights(_, _)
SumOfWeights(seq, i) ==
  IF i > Len(seq) THEN 0
  ELSE ClaimedWeight10(seq[i]) + SumOfWeights(seq, i + 1)

\* 100 * (sum of w_i * s_i) over the analyses from the i-th on
RECURSIVE SumOfWeighted(_, _)
SumOfWeighted(seq, i) ==
  IF i > Len(seq) THEN 0
  ELSE ClaimedWeight10(seq[i]) * ClaimedScore10(seq[i]) + SumOfWeighted(seq, i + 1)

Abs(x) == IF x >= 0 THEN x ELSE 0 - x

\* dIn with every profile_alignment set to 0
WithoutAlignment == [i \in 1..Len(dIn) |-> [dIn[i] EXCEPT !.profile_alignment = 0]]

\* C20: calculate_role_match_score returns 100 * (sum of w_i * s_i) / (sum
\* of w_i) rounded to two decimals (a value within 0.005 of the quotient),
\* with w_i 1.0 / 0.6 / 0.2 for KEEP / REWRITE / DE_EMPHASIZE and 0.5 for any
\* other decision, and s_i = 0.5*similarity + 0.3*overlap + 0.2*(0.8 or 0.2);
\* profile_alignment has no part in it; for the empty list it is 0.0.
C20_AggregateScore ==
  Scored =>
    /\ dIn = <<>> => dOut.score = 0
    /\ dIn # <<>> =>
         LET sumW == SumOfWeights(dIn, 1)
             sumWS == SumOfWeighted(dIn, 1)
         IN 2 * Abs(dOut.score * Scale * sumW - 1000 * sumWS) <= Scale * sumW
    /\ dOut.score \in CalculateRoleMatchScore(WithoutAlignment)

\* C20 witness: three analyses decided KEEP, REWRITE and DE_EMPHASIZE, with
\* different signals and a non-zero profile_alignment among them, scored.
C20_Witness ==
  /\ Scored
  /\ Len(dIn) = 3
  /\ dIn[1].decision = "KEEP"
  /\ dIn[2].decision = "REWRITE"
  /\ dIn[3].decision = "DE_EMPHASIZE"
  /\ dIn[1].jd_similarity # dIn[2].jd_similarity
  /\ dIn[2].profile_alignment > 0
  /\ dOut.score > 0

RoleScored == ret.op = "calculate_role_match_score"

\* C21: the role match score of the analyses that analyze_all_bullets
\* returned lies between 0 and 100, both included (the score is kept in
\* hundredths of a point).
C21_ScoreInRange ==
  RoleScored => (0 <= ret.score /\ ret.score <= 100 * 100)

\* a score above 80 for two bullets, and not a score of a single decision
C21_Witness ==
  /\ RoleScored
  /\ Len(ret.analyses) = 2
  /\ ret.score > 80 * 100

Signalled == dOut # NoSignals

\* the skill names and the recommendations handed over, none without hints
HintSkills == IF dIn.match_analysis.given THEN dIn.match_analysis.skill_matches ELSE <<>>
HintRecs == IF dIn.match_analysis.given THEN dIn.match_analysis.recommendations ELSE <<>>

\* s occurs in the text, letter case aside
OccursIn(s, text) == IsSubstring(Lower(s), Lower(text))

\* some matched-skill name occurs in the text
SkillOccurs == \E i \in 1..Len(HintSkills) : OccursIn(HintSkills[i], dIn.bullet_text)

\* some recommendation with this action has its (non-empty) topic in the text
RecOccurs(action) ==
  \E i \in 1..Len(HintRecs) :
    /\ HintRecs[i].action = action
    /\ HintRecs[i].skill_or_topic # <<>>
    /\ OccursIn(HintRecs[i].skill_or_topic, dIn.bullet_text)

\* C22 as stated: a matched skill gives alignment 0.8 and emphasis and keeps
\* the recommendations from being consulted, so should_add stays false; only
\* without a matched skill do the recommendations set alignment 0.7 and
\* emphasis (EMPHASIZE) or should_add (ADD).
C22_SkillExcludesRecommendations ==
  Signalled =>
    /\ SkillOccurs =>
          /\ dOut.profile_alignment = Pct(80)
          /\ dOut.should_emphasize
          /\ ~dOut.should_add
    /\ ~SkillOccurs =>
          /\ dOut.should_emphasize = RecOccurs("EMPHASIZE")
          /\ dOut.should_add = RecOccurs("ADD")
          /\ dOut.profile_alignment = (IF RecOccurs("EMPHASIZE") THEN Pct(70) ELSE 0)

\* C22, amended: the recommendations are scanned whether or not a skill
\* matched.  A matched skill gives alignment 0.8 and emphasis; a matching
\* EMPHASIZE recommendation gives emphasis and alignment at least 0.7; a
\* matching ADD recommendation sets should_add, with or without a matched
\* skill; nothing else sets any of the three.
C22_HintsScanned ==
  Signalled =>
    /\ dOut.should_emphasize = (SkillOccurs \/ RecOccurs("EMPHASIZE"))
    /\ dOut.should_add = RecOccurs("ADD")
    /\ dOut.profile_alignment =
         (IF SkillOccurs THEN Pct(80)
          ELSE IF RecOccurs("EMPHASIZE") THEN Pct(70) ELSE 0)
    /\ RecOccurs("EMPHASIZE") => dOut.profile_alignment >= Pct(70)

\* a skill written in capitals matched, an ADD recommendation matched as
\* well, and should_add is set
C22_Witness ==
  /\ Signalled
  /\ SkillOccurs
  /\ RecOccurs("ADD")
  /\ ~IsSubstring(HintSkills[1], dIn.bullet_text)
  /\ dOut.should_add
  /\ dOut.profile_alignment = Pct(80)

\* the in-memory state of the store and of the engine
InMemory ==
  <<index, metadata, dimension, model_name, jd_keywords, jd_embedding,
    thresholds>>

\* C23: analyze_bullet, analyze_all_bullets, calculate_role_match_score,
\* search and get_relevant_entries leave the index, the metadata, the target
\* and the thresholds as they were; a step that changes the in-memory state
\* is an add (build_index, add_to_index), a set_job_description or a load.
C23_OnlyMutatorsChangeState ==
  [][InMemory' # InMemory
       => ret'.op \in {"build_index", "add_to_index", "set_job_description",
                       "load"}]_vars

\* what the call of thread t returns when it runs on its own, from its
\* first statement to its last, on the store and the engine as they are
Sequentially(t) ==
  IF threads[t].op = "search"
    THEN Search(index, metadata, tieOrder, threads[t].text, threads[t].k)
    ELSE AnalyzeBullet(index, metadata, tieOrder, jd_embedding, jd_keywords,
                       thresholds, threads[t].text, threads[t].match_analysis)

\* C24: with no build_index, load or set_job_description running at the
\* same time, a search or analyze_bullet call whose steps are interleaved
\* with those of another call returns what it returns when run on its own.
C24_InterleavingsAgree ==
  \A t \in ThreadIds :
    threads[t].pc = "done" => threads[t].result = Sequentially(t)

\* a search that found an entry is about to return, its steps having been
\* mixed with those of an analyze_bullet that is still searching
C24_Witness ==
  /\ threads[1].pc = "done"
  /\ threads[1].op = "search"
  /\ threads[1].mixed
  /\ Len(threads[1].result) >= 1
  /\ threads[2].op = "analyze_bullet"
  /\ threads[2].pc = "select"
  /\ threads[2].mixed
  /\ threads[2].text # threads[1].text

\* x is a score between 0.0 and 1.0
InUnitRange(x) == 0 <= x /\ x <= Scale

\* C25: in every analysis analyze_bullet returns, jd_similarity,
\* keyword_score and profile_alignment lie between 0 and 1, also when the
\* inner product of the bullet and the target is negative.
C25_SignalsInRange ==
  Analyzed =>
    /\ InUnitRange(ret.analysis.jd_similarity)
    /\ InUnitRange(ret.analysis.keyword_score)
    /\ InUnitRange(ret.analysis.profile_alignment)

\* a bullet whose inner product with the target is negative, analysed with
\* hints that match it
C25_Witness ==
  /\ Analyzed
  /\ jd_embedding # NoVector
  /\ Score(jd_embedding, UnitEmbedding[ret.bullet]) < 0
  /\ ret.analysis.jd_similarity = 0
  /\ ret.analysis.profile_alignment = Pct(80)

Step2Returned == ret.op = "step2_create_embedding_store"

\* the step found a .faiss file and its load raised
LoadFailedInStep == Step2Returned /\ ret.tried /\ ret.load_raised # "none"

\* the store holds one entry per bullet, in the bullets' order, and the
\* disk holds this store, written by one save
RebuiltFrom(bullets) ==
  /\ index.built
  /\ NTotal(index) = Len(bullets)
  /\ Len(metadata) = Len(bullets)
  /\ \A i \in 1..Len(bullets) :
       /\ metadata[i].text = bullets[i]
       /\ index.xb[i] = UnitEmbedding[bullets[i]]
  /\ disk.faiss.content = index
  /\ disk.metadata.content = metadata
  /\ disk.faiss.gen = disk.metadata.gen
  /\ disk.metadata.gen = disk.config.gen
  /\ disk.config.content.size = Len(bullets)

\* the step loaded the store that is at the path and wrote nothing
LoadedNotRebuilt ==
  /\ ret.path = "loaded"
  /\ ret.raised = "none"
  /\ index = disk.faiss.content
  /\ metadata = disk.metadata.content

\* C26 as stated: with rebuild disabled a store at the path is loaded; when
\* that load raises, the step rebuilds and ends with a store of one entry
\* per profile bullet, in order, which it has saved.
C26_FallbackAlwaysRebuilds ==
  (Step2Returned /\ ret.tried) =>
    IF ret.load_raised = "none" THEN LoadedNotRebuilt
    ELSE ret.raised = "none" /\ RebuiltFrom(ret.bullets)

\* C26, amended: the same for a profile that has at least one bullet; with
\* no bullets the step raises ValueError after the failed load, builds and
\* saves nothing, and the store stays as the failed load left it.
C26_FallbackRebuilds ==
  (Step2Returned /\ ret.tried) =>
    IF ret.load_raised = "none" THEN LoadedNotRebuilt
    ELSE IF ret.bullets # <<>>
      THEN ret.raised = "none" /\ RebuiltFrom(ret.bullets)
      ELSE /\ ret.raised = "ValueError"
           /\ index = ret.left.index
           /\ metadata = ret.left.metadata

\* the load raised after it had replaced the index, and the step rebuilt
\* the store from two bullets
C26_Witness ==
  /\ LoadFailedInStep
  /\ ret.left.index.built
  /\ Len(ret.bullets) = 2
  /\ ret.raised = "none"
  /\ NTotal(index) = 2
  /\ ret.left.index # index

\* the store's fields that load assigns
StoreFields == <<index, metadata, model_name, dimension>>

\* C27: a load that raises leaves the index, the metadata, the model name
\* and the dimension as they were before the call, also when only some of
\* the three files are at the path.
C27_FailedLoadLeavesStore ==
  [][(ret'.op = "load" /\ ret'.raised # "none")
       => StoreFields' = StoreFields]_vars

EmphasisDecided == dOut # NotDecided /\ "with_emphasis" \in DOMAIN dOut

\* how favourable a decision is: DE_EMPHASIZE < REWRITE < KEEP
Favour(decision) ==
  CASE decision = "DE_EMPHASIZE" -> 0
    [] decision = "REWRITE" -> 1
    [] decision = "KEEP" -> 2

\* C28: for the same similarity, overlap, evidence, alignment and
\* thresholds (keep threshold not negative), the decision with
\* should_emphasize set is at least as favourable as the decision with it
\* cleared.
C28_EmphasisNeverDowngrades ==
  (EmphasisDecided /\ dIn.th.keep_threshold >= 0) =>
    Favour(dOut.with_emphasis) >= Favour(dOut.without_emphasis)

\* the score rules keep the bullet, with the similarity exactly at the keep
\* threshold, and emphasis keeps it too; and emphasis does change decisions
C28_Witness ==
  /\ EmphasisDecided
  /\ dIn.has_evidence
  /\ dIn.th.keep_threshold > 0
  /\ dIn.jd_similarity = dIn.th.keep_threshold
  /\ dOut.without_emphasis = "KEEP"
  /\ dOut.with_emphasis = "KEEP"

\* _make_decision called as analyze_bullet calls it without hints, on an
\* engine with the default thresholds
NoHintsDefaults ==
  /\ dIn.th = DefaultThresholds
  /\ dIn.profile_alignment = 0
  /\ ~dIn.should_emphasize
  /\ ~dIn.should_add

\* C29: with the default thresholds and no hints, a bullet without evidence
\* is never KEEP, whatever its similarity and overlap: KEEP without hints
\* needs evidence.
C29_NoKeepWithoutEvidence ==
  (Decided /\ NoHintsDefaults /\ dOut.decision = "KEEP") => dIn.has_evidence

\* the best bullet without evidence: similarity 1.0 and full overlap, and
\* the decision is REWRITE
C29_Witness ==
  /\ Decided
  /\ NoHintsDefaults
  /\ ~dIn.has_evidence
  /\ dIn.jd_similarity = Scale
  /\ dIn.keyword_score = Scale
  /\ dOut.decision = "REWRITE"

\* C30: in every state of an engine, also after a set_job_description in
\* which the embedding provider raised, the stored text and the stored
\* vector are of one description: both unset, or the vector is the
\* normalised encoding of the text.
C30_TargetConsistent ==
  \/ jd_keywords = EmptyText /\ jd_embedding = NoVector
  \/ jd_embedding = NormalizeL2(Encode(jd_keywords))

====
